---- MODULE Spec2Model ----
(***************************************************************************)
(* A model of tradeexecutor.strategy.alpha_model: one strategy cycle of    *)
(* an AlphaModel instance (signal registration, selection, weighting,      *)
(* normalisation, prior-cycle merge, target computation and rebalance      *)
(* trade generation) against a portfolio and a position manager.           *)
(*                                                                         *)
(* Numbers.  Percent values (weights) are fixed-point integers with        *)
(* WeightScale units to 1.0; US dollar amounts, signals and leverage       *)
(* multipliers are integers.  An Optional value is None == <<>> or         *)
(* Some(x) == <<x>>.  A Python dict is a sequence without duplicate keys,  *)
(* in insertion order.                                                     *)
(***************************************************************************)
EXTENDS Integers, Sequences, FiniteSets, TLC

VARIABLES
    raw_signals,                  \* AlphaModel.raw_signals
    signals,                      \* AlphaModel.signals
    investable_equity,            \* AlphaModel.investable_equity
    close_position_weight_epsilon,\* AlphaModel.close_position_weight_epsilon
    portfolio,                    \* the Portfolio the position manager works on
    requested,                    \* trades the position manager created, in creation order
    returned,                     \* the list generate_rebalance_trades_and_triggers returned
    last,                         \* the last call made on the model and its outcome
    pc,                           \* position of the strategy's decide_trades() in the cycle
    ncalls,                       \* calls counted against the bound of the specification
    twin,                         \* a second AlphaModel given the same calls, or None
    buffer                        \* RingBufferHandler.buffer, or None without a handler

vars == <<raw_signals, signals, investable_equity, close_position_weight_epsilon,
          portfolio, requested, returned, last, pc, ncalls, twin, buffer>>

----------------------------------------------------------------------------
(* Bounds and input domains *)

MaxSetSignalCalls == 2

\* calls a caller makes in any order
MaxAnyOrderCalls == 4

\* position manager calls, within one call of the model, that can go wrong
MaxPMCalls == 4

\* calls a caller that repeats the weighting steps makes after registration
MaxRepeatCalls == 5

\* the largest buffer_size of a RingBufferHandler, and the records emitted to it
MaxBufferSize == 2
MaxEmits == 4

\* cycles follow each other until the position manager has numbered this
\* many trades
MaxExecutedTrades == 5

Assets == {1, 2}

\* 1.0 as a Percent
WeightScale == 1000

\* AlphaModel.close_position_weight_epsilon default, 0.005
DefaultEpsilon == 5

None == <<>>
Some(x) == <<x>>
Val(o) == o[1]

Alphas == {-2, 0, 1}
Leverages == {None, Some(0), Some(2), Some(-1)}
\* <<stop_loss, take_profit, trailing_stop_loss>>, percent of the price
RiskChoices == {<<None, None, None>>, <<Some(98), Some(102), Some(95)>>}
Counts == {1, 2}
Thresholds == {0, 2}
Equities == {1000}
PositionValues == {0, 600}
\* the value of each of two positions held on one asset
BothValue == CHOOSE v \in PositionValues : v > 0
MinTradeThresholds == {2, 100, 1000}

----------------------------------------------------------------------------
(* TradingPairIdentifier *)

NoPair == [kind |-> "none", asset |-> 0]
SpotPair(a) == [kind |-> "spot", asset |-> a]
ShortPair(a) == [kind |-> "short", asset |-> a]
LongPair(a) == [kind |-> "long", asset |-> a]
Pairs == {SpotPair(a) : a \in Assets} \cup {ShortPair(a) : a \in Assets}

is_spot(p) == p.kind = "spot"
is_short(p) == p.kind = "short"
is_long(p) == p.kind = "long"
get_pricing_pair(p) == SpotPair(p.asset)
internal_id(p) == IF is_spot(p) THEN p.asset ELSE p.asset + Cardinality(Assets)

\* TradingStrategyUniverse.get_shorting_pair
get_shorting_pair(underlying) == ShortPair(underlying.asset)

----------------------------------------------------------------------------
(* TradingPairSignal *)

NewSignal(pair, signal, stop_loss, take_profit, trailing_stop_loss, leverage, old_weight, old_value, old_pair) ==
    [pair |-> pair,
     signal |-> signal,
     stop_loss |-> stop_loss,
     take_profit |-> take_profit,
     trailing_stop_loss |-> trailing_stop_loss,
     raw_weight |-> 0,
     normalised_weight |-> 0,
     old_weight |-> old_weight,
     old_value |-> old_value,
     old_pair |-> old_pair,
     position_target |-> 0,
     position_adjust_usd |-> 0,
     position_adjust_quantity |-> 0,
     position_id |-> None,
     position_adjust_ignored |-> FALSE,
     synthetic_pair |-> NoPair,
     leverage |-> leverage]

\* TradingPairSignal.__post_init__: the assertions that let the record exist
PostInitOk(pair, leverage) ==
    /\ is_spot(pair)
    /\ (leverage # None /\ Val(leverage) # 0) => Val(leverage) > 0

\* (normalised_weight or old_weight) and not position_adjust_ignored
has_trades(s) ==
    (s.normalised_weight # 0 \/ s.old_weight # 0) /\ ~s.position_adjust_ignored

is_new(s) == s.old_weight = 0

is_closing(s) == s.normalised_weight = 0

\* mutant: a held spot position is not seen as the opposite of a short signal
is_flipping_LongOnly(s) ==
    IF s.normalised_weight = 0 THEN FALSE
    ELSE IF s.old_pair = NoPair THEN FALSE
    ELSE IF s.signal < 0 THEN is_long(s.old_pair)
    ELSE IF s.signal > 0 THEN is_short(s.old_pair)
    ELSE FALSE

\* mutant: closing to zero counts as flipping too
is_flipping_AlsoWhenClosing(s) ==
    IF s.old_pair = NoPair THEN FALSE
    ELSE IF s.signal < 0 THEN is_long(s.old_pair) \/ is_spot(s.old_pair)
    ELSE IF s.signal > 0 THEN is_short(s.old_pair)
    ELSE FALSE

is_flipping(s) ==
    IF s.normalised_weight = 0 THEN FALSE
    ELSE IF s.old_pair = NoPair THEN FALSE
    ELSE IF s.signal < 0 THEN is_long(s.old_pair) \/ is_spot(s.old_pair)
    ELSE IF s.signal > 0 THEN is_short(s.old_pair)
    ELSE FALSE

----------------------------------------------------------------------------
(* dict helpers: a dict of signal records is a sequence of records, keyed  *)
(* by the internal id of the record's pair                                 *)

Range(seq) == {seq[i] : i \in 1..Len(seq)}

KeyOf(e) == internal_id(e.pair)

HasKey(d, k) == \E i \in 1..Len(d) : KeyOf(d[i]) = k

Get(d, k) == d[CHOOSE i \in 1..Len(d) : KeyOf(d[i]) = k]

\* d[k] = e: an existing key keeps its place, a new key goes last
Put(d, e) ==
    IF HasKey(d, KeyOf(e))
    THEN [i \in 1..Len(d) |-> IF KeyOf(d[i]) = KeyOf(e) THEN e ELSE d[i]]
    ELSE Append(d, e)

\* del d[k]
Del(d, k) == SelectSeq(d, LAMBDA e : KeyOf(e) # k)

\* raw_signals entries: the record itself, or (shared) the very object that
\* signals holds under the same key
RawEntry(rec) == [pair |-> rec.pair, shared |-> FALSE, rec |-> rec]

RawRecordOf(e, sigs) ==
    IF e.shared THEN Get(sigs, KeyOf(e)) ELSE e.rec

RawRecords == [i \in 1..Len(raw_signals) |-> RawRecordOf(raw_signals[i], signals)]

Placeholder(pair) == NewSignal(pair, 0, None, None, None, None, 0, 0, NoPair)

SharedEntry(rec) == [pair |-> rec.pair, shared |-> TRUE, rec |-> Placeholder(rec.pair)]

----------------------------------------------------------------------------
(* The outcome of a call, kept for the properties *)

Outcome(op, ok, args) == [op |-> op, ok |-> ok, args |-> args]

----------------------------------------------------------------------------
(* AlphaModel.set_signal *)

\* mutant: nothing checks that the pair is a spot pair
SetSignalFails_NoSpotCheck(pair, alpha, leverage) ==
    \/ alpha < 0 /\ leverage = None
    \/ alpha # 0 /\ leverage # None /\ Val(leverage) < 0

\* the assertions of set_signal and of the record's __post_init__
SetSignalFails(pair, alpha, leverage) ==
    \/ ~is_spot(pair)
    \/ alpha < 0 /\ leverage = None
    \/ alpha # 0 /\ ~PostInitOk(pair, leverage)

\* mutant: a zero alpha is stored like any other signal
SetSignalStore_StoresZero(raw, pair, alpha, risk, leverage) ==
    Put(raw, RawEntry(NewSignal(pair, alpha, risk[1], risk[2], risk[3], leverage,
                                0, 0, NoPair)))

\* mutant: a pair that has a record keeps it, with the new signal value
SetSignalStore_UpdatesInPlace(raw, pair, alpha, risk, leverage) ==
    IF alpha = 0
    THEN Del(raw, internal_id(pair))
    ELSE IF HasKey(raw, internal_id(pair))
    THEN [i \in 1..Len(raw) |->
             IF KeyOf(raw[i]) = internal_id(pair) /\ ~raw[i].shared
             THEN [raw[i] EXCEPT !.rec.signal = alpha]
             ELSE raw[i]]
    ELSE Put(raw, RawEntry(NewSignal(pair, alpha, risk[1], risk[2], risk[3], leverage,
                                     0, 0, NoPair)))

\* raw_signals after an accepted call
SetSignalStore(raw, pair, alpha, risk, leverage) ==
    IF alpha = 0
    THEN Del(raw, internal_id(pair))
    ELSE Put(raw, RawEntry(NewSignal(pair, alpha, risk[1], risk[2], risk[3], leverage,
                                     0, 0, NoPair)))

\* mutant: the record the pair has in signals takes the new signal value too
set_signal_UpdatesSelected(pair, alpha, risk, leverage) ==
    LET fails == SetSignalFails(pair, alpha, leverage) IN
    /\ raw_signals' = IF fails THEN raw_signals
                      ELSE SetSignalStore(raw_signals, pair, alpha, risk, leverage)
    /\ signals' = [i \in 1..Len(signals) |->
                      IF ~fails /\ KeyOf(signals[i]) = internal_id(pair)
                      THEN [signals[i] EXCEPT !.signal = alpha]
                      ELSE signals[i]]
    /\ last' = Outcome("set_signal", ~fails,
                       [pair |-> pair, alpha |-> alpha, risk |-> risk, leverage |-> leverage])
    /\ UNCHANGED <<investable_equity, close_position_weight_epsilon,
                   portfolio, requested, returned>>

set_signal(pair, alpha, risk, leverage) ==
    LET fails == SetSignalFails(pair, alpha, leverage) IN
    /\ raw_signals' = IF fails THEN raw_signals
                      ELSE SetSignalStore(raw_signals, pair, alpha, risk, leverage)
    /\ last' = Outcome("set_signal", ~fails,
                       [pair |-> pair, alpha |-> alpha, risk |-> risk, leverage |-> leverage])
    /\ UNCHANGED <<signals, investable_equity, close_position_weight_epsilon,
                   portfolio, requested, returned>>

----------------------------------------------------------------------------
(* AlphaModel.select_top_signals *)

Abs(x) == IF x < 0 THEN -x ELSE x

\* sorted(seq, key=raw_weight, reverse=True): stable, equal keys keep their order
RECURSIVE SortedByRawWeightDesc(_)
SortedByRawWeightDesc(seq) ==
    IF seq = <<>> THEN <<>>
    ELSE LET rest == SortedByRawWeightDesc(Tail(seq))
             x == Head(seq)
             \* x goes before the first element of rest that is not above it
             n == Cardinality({i \in 1..Len(rest) : rest[i].raw_weight > x.raw_weight})
         IN SubSeq(rest, 1, n) \o <<x>> \o SubSeq(rest, n + 1, Len(rest))

\* heapq.nlargest(count, seq, key=raw_weight)
NLargest(count, seq) ==
    LET sorted == SortedByRawWeightDesc(seq)
    IN SubSeq(sorted, 1, IF count < Len(sorted) THEN count ELSE Len(sorted))

\* mutant: a signal of exactly the threshold is left out
FilteredSignals_Exclusive(records, threshold) ==
    SelectSeq(records, LAMBDA s : Abs(s.signal) > threshold)

FilteredSignals(records, threshold) ==
    SelectSeq(records, LAMBDA s : Abs(s.signal) >= threshold)

TopSignals(records, count, threshold) ==
    NLargest(count, FilteredSignals(records, threshold))

\* the orders a mapping of n keys can be iterated in
InsertionOrders(n) == {f \in [1..n -> 1..n] : \A i, j \in 1..n : f[i] = f[j] => i = j}

\* mutant: the mapping is iterated in an order that is not fixed
select_top_signals_AnyIterationOrder(count, threshold) ==
    \E order \in InsertionOrders(Len(raw_signals)) :
        LET top == TopSignals([i \in 1..Len(raw_signals) |-> RawRecords[order[i]]],
                              count, threshold) IN
        /\ signals' = top
        /\ raw_signals' = [i \in 1..Len(raw_signals) |->
                              IF HasKey(top, KeyOf(raw_signals[i]))
                              THEN SharedEntry(raw_signals[i])
                              ELSE RawEntry(RawRecords[i])]
        /\ last' = Outcome("select_top_signals", TRUE,
                           [count |-> count, threshold |-> threshold])
        /\ UNCHANGED <<investable_equity, close_position_weight_epsilon,
                       portfolio, requested, returned>>

select_top_signals(count, threshold) ==
    LET top == TopSignals(RawRecords, count, threshold) IN
    /\ signals' = top
    /\ raw_signals' = [i \in 1..Len(raw_signals) |->
                          IF HasKey(top, KeyOf(raw_signals[i]))
                          THEN SharedEntry(raw_signals[i])
                          ELSE RawEntry(RawRecords[i])]
    /\ last' = Outcome("select_top_signals", TRUE, [count |-> count, threshold |-> threshold])
    /\ UNCHANGED <<investable_equity, close_position_weight_epsilon,
                   portfolio, requested, returned>>

----------------------------------------------------------------------------
(* tradeexecutor.strategy.weighting and AlphaModel.assign_weights,          *)
(* AlphaModel.normalise_weights                                             *)

RECURSIVE Sum(_)
Sum(seq) == IF seq = <<>> THEN 0 ELSE Head(seq) + Sum(Tail(seq))

\* weight_by_1_slash_n: equal weight among the non-zero signals
weight_by_1_slash_n(alphas) ==
    LET n == Cardinality({i \in 1..Len(alphas) : alphas[i] # 0})
    IN [i \in 1..Len(alphas) |-> IF alphas[i] = 0 THEN 0 ELSE WeightScale \div n]

\* a weighting method a strategy plugs in: a table from the signal value to
\* the raw weight
WeightTables ==
    { [a \in {-2, 1} |-> IF a < 0 THEN 249 ELSE 1],
      [a \in {-2, 1} |-> IF a < 0 THEN 1 ELSE 249],
      [a \in {-2, 1} |-> 0] }

weight_by_table(table, alphas) ==
    [i \in 1..Len(alphas) |-> IF alphas[i] \in DOMAIN table THEN table[alphas[i]] ELSE 0]

Methods == {[name |-> "weight_by_1_slash_n", table |-> <<>>]}
           \cup {[name |-> "custom", table |-> t] : t \in WeightTables}

\* mutant: short signals get no weight
ApplyMethod_ShortsGetNothing(method, alphas) ==
    LET n == Cardinality({i \in 1..Len(alphas) : alphas[i] # 0})
    IN [i \in 1..Len(alphas) |-> IF alphas[i] <= 0 THEN 0 ELSE WeightScale \div n]

ApplyMethod(method, alphas) ==
    IF method.name = "weight_by_1_slash_n"
    THEN weight_by_1_slash_n(alphas)
    ELSE weight_by_table(method.table, alphas)

assign_weights(method) ==
    LET weights == ApplyMethod(method, [i \in 1..Len(signals) |-> signals[i].signal]) IN
    /\ signals' = [i \in 1..Len(signals) |-> [signals[i] EXCEPT !.raw_weight = weights[i]]]
    /\ last' = Outcome("assign_weights", TRUE, [method |-> method])
    /\ UNCHANGED <<raw_signals, investable_equity, close_position_weight_epsilon,
                   portfolio, requested, returned>>

\* weighting.normalise_weights: weights that sum to 1, or all zero
normalise(weights) ==
    LET total == Sum(weights)
    IN [i \in 1..Len(weights) |->
           IF total = 0 THEN 0 ELSE (weights[i] * WeightScale) \div total]

\* mutant: the raw weights are taken as they are
normalise_weights_Raw ==
    /\ signals' = [i \in 1..Len(signals) |->
                      [signals[i] EXCEPT !.normalised_weight = signals[i].raw_weight]]
    /\ last' = Outcome("normalise_weights", TRUE, <<>>)
    /\ UNCHANGED <<raw_signals, investable_equity, close_position_weight_epsilon,
                   portfolio, requested, returned>>

normalise_weights ==
    LET normalised == normalise([i \in 1..Len(signals) |-> signals[i].raw_weight]) IN
    /\ signals' = [i \in 1..Len(signals) |->
                      [signals[i] EXCEPT !.normalised_weight = normalised[i]]]
    /\ last' = Outcome("normalise_weights", TRUE, <<>>)
    /\ UNCHANGED <<raw_signals, investable_equity, close_position_weight_epsilon,
                   portfolio, requested, returned>>

----------------------------------------------------------------------------
(* Portfolio, AlphaModel.set_old_weight and AlphaModel.update_old_weights   *)

Position(id, pair, value) == [position_id |-> id, pair |-> pair, value |-> value]

\* no portfolio has been handed to the model yet
UnreadPortfolio == [open_positions |-> <<>>, next_position_id |-> 0, next_trade_id |-> 0]

\* what one asset can hold when the cycle starts: nothing, a spot position,
\* a short position, or a spot and a short position of BothValue each
Holdings ==
    {[kind |-> "none", value |-> 0]}
    \cup {[kind |-> k, value |-> v] : k \in {"spot", "short"}, v \in PositionValues}
    \cup {[kind |-> "both", value |-> BothValue]}

\* the positions held on asset a; the only or the spot position has id a, a
\* short position next to a spot position id a + Cardinality(Assets)
PositionsOn(h, a) ==
    IF h[a].kind = "none" THEN <<>>
    ELSE IF h[a].kind = "both"
    THEN <<Position(a, SpotPair(a), h[a].value),
           Position(a + Cardinality(Assets), ShortPair(a), h[a].value)>>
    ELSE <<Position(a, [kind |-> h[a].kind, asset |-> a], h[a].value)>>

\* open_positions, asset by asset
RECURSIVE OpenPositionsOf(_, _)
OpenPositionsOf(h, a) ==
    IF a \notin Assets THEN <<>>
    ELSE PositionsOn(h, a) \o OpenPositionsOf(h, a + 1)

Portfolios ==
    {[open_positions |-> OpenPositionsOf(h, 1),
      next_position_id |-> 2 * Cardinality(Assets) + 1,
      next_trade_id |-> 1] : h \in [Assets -> Holdings]}

\* Portfolio.get_position_equity_and_loan_nav
get_position_equity_and_loan_nav(pf) ==
    Sum([i \in 1..Len(pf.open_positions) |-> pf.open_positions[i].value])

\* the pair update_old_weights files a position under
OldWeightPair(position) == get_pricing_pair(position.pair)

\* assert pair is not None; assert pair.is_spot()
SetOldWeightFails(pair) == pair = NoPair \/ ~is_spot(pair)

set_old_weight(sigs, pair, old_weight, old_value, old_synthetic_pair) ==
    IF HasKey(sigs, internal_id(pair))
    THEN [i \in 1..Len(sigs) |->
             IF KeyOf(sigs[i]) = internal_id(pair)
             THEN [sigs[i] EXCEPT !.old_weight = old_weight,
                                  !.old_value = old_value,
                                  !.old_pair = old_synthetic_pair]
             ELSE sigs[i]]
    ELSE Append(sigs, NewSignal(pair, 0, None, None, None, None,
                                old_weight, old_value, old_synthetic_pair))

\* the loop of update_old_weights over the open positions; value / total
\* raises ZeroDivisionError when the NAV is 0, and the loop stops at the
\* first failure
RECURSIVE UpdateOldWeightsLoop(_, _, _)
UpdateOldWeightsLoop(sigs, positions, total) ==
    IF positions = <<>> THEN [ok |-> TRUE, signals |-> sigs]
    ELSE LET position == Head(positions)
             value == position.value
             pair == OldWeightPair(position)
         IN IF total = 0 \/ SetOldWeightFails(pair)
            THEN [ok |-> FALSE, signals |-> sigs]
            ELSE UpdateOldWeightsLoop(
                     set_old_weight(sigs, pair, (value * WeightScale) \div total, value,
                                    position.pair),
                     Tail(positions), total)

update_old_weights(pf) ==
    LET run == UpdateOldWeightsLoop(signals, pf.open_positions,
                                    get_position_equity_and_loan_nav(pf)) IN
    /\ signals' = run.signals
    /\ portfolio' = pf
    /\ last' = Outcome("update_old_weights", run.ok, <<>>)
    /\ UNCHANGED <<raw_signals, investable_equity, close_position_weight_epsilon,
                   requested, returned>>

----------------------------------------------------------------------------
(* The position manager, as a party that can fail *)

\* How the position manager behaves during one call of the model: it is
\* reliable, or its call number `at` raises, or its calls from number `at` on
\* hand back an empty list of trades.  Calls are numbered from 1 within the
\* call of the model.
ReliablePM == [mode |-> "reliable", at |-> 0]

PMBehaviours ==
    {ReliablePM} \cup {[mode |-> m, at |-> k] : m \in {"fails", "empty"}, k \in 1..MaxPMCalls}

Raises(pm, k) == pm.mode = "fails" /\ pm.at = k

\* what the position manager's call number k hands back for the trades it
\* was asked to create
Handed(pm, k, trades) == IF pm.mode = "empty" /\ k >= pm.at THEN <<>> ELSE trades

----------------------------------------------------------------------------
(* AlphaModel.calculate_weight_diffs *)

\* weighting.check_normalised_weights: the weights of a mapping that is not
\* empty sum to 1, within the rounding of one unit for each weight
check_normalised_weights(weights) ==
    \/ weights = <<>>
    \/ Sum(weights) <= WeightScale /\ Sum(weights) > WeightScale - Len(weights)

\* a mapping from the pair id to a weight of the records
WeightsById(sigs, field) ==
    [i \in 1..Len(sigs) |->
        [id |-> internal_id(sigs[i].pair),
         weight |-> IF field = "old_weight" THEN sigs[i].old_weight
                    ELSE sigs[i].normalised_weight]]

\* dict.get(id, 0)
WeightOf(weights, id) ==
    IF \E i \in 1..Len(weights) : weights[i].id = id
    THEN weights[CHOOSE i \in 1..Len(weights) : weights[i].id = id].weight
    ELSE 0

\* mutant: the diff is taken the other way round
WeightDiffs_OldMinusNew(new_weights, existing_weights) ==
    [i \in 1..Len(new_weights) |->
        [id |-> new_weights[i].id,
         diff |-> WeightOf(existing_weights, new_weights[i].id) - new_weights[i].weight]]

\* the two loops that fill diffs
WeightDiffs(new_weights, existing_weights) ==
    LET changed == [i \in 1..Len(new_weights) |->
                       [id |-> new_weights[i].id,
                        diff |-> new_weights[i].weight
                                     - WeightOf(existing_weights, new_weights[i].id)]]
        gone == SelectSeq(existing_weights,
                          LAMBDA e : \A i \in 1..Len(changed) : changed[i].id # e.id)
    IN changed \o [i \in 1..Len(gone) |-> [id |-> gone[i].id, diff |-> -gone[i].weight]]

calculate_weight_diffs ==
    LET new_weights == WeightsById(signals, "normalised_weight")
        existing_weights == WeightsById(signals, "old_weight")
        ok == /\ check_normalised_weights([i \in 1..Len(signals) |-> new_weights[i].weight])
              /\ check_normalised_weights([i \in 1..Len(signals) |->
                                              existing_weights[i].weight])
    IN
    /\ last' = Outcome("calculate_weight_diffs", ok,
                       [diffs |-> IF ok THEN WeightDiffs(new_weights, existing_weights)
                                  ELSE <<>>])
    /\ UNCHANGED <<raw_signals, signals, investable_equity, close_position_weight_epsilon,
                   portfolio, requested, returned>>

----------------------------------------------------------------------------
(* AlphaModel.map_pair_for_signal and AlphaModel.calculate_target_positions *)

\* mutant: every signal is traded on its spot pair
map_pair_for_signal_AlwaysSpot(s) == s.pair

map_pair_for_signal(s) ==
    IF s.signal > 0 THEN s.pair
    ELSE IF s.signal < 0 THEN get_shorting_pair(s.pair)
    ELSE s.pair

\* PositionManager.estimate_asset_quantity: dollars to units at the asset's price
estimate_asset_quantity(pair, dollar_amount) == dollar_amount \div 2

\* mutant: a flipping signal is adjusted by the difference to its old value
CalculateTarget_NoFlip(s0, equity) ==
    LET s1 == [s0 EXCEPT !.position_target = (s0.normalised_weight * equity) \div WeightScale]
        s == [s1 EXCEPT !.synthetic_pair = map_pair_for_signal(s1)]
        adjust == s.position_target - s.old_value
    IN IF adjust < 0
       THEN [s EXCEPT !.position_adjust_usd = adjust,
                      !.position_adjust_quantity = estimate_asset_quantity(s.pair, adjust)]
       ELSE [s EXCEPT !.position_adjust_usd = adjust]

CalculateTarget(s0, equity) ==
    LET s1 == [s0 EXCEPT !.position_target = (s0.normalised_weight * equity) \div WeightScale]
        s == [s1 EXCEPT !.synthetic_pair = map_pair_for_signal(s1)]
    IN IF is_flipping(s)
       THEN [s EXCEPT !.position_adjust_usd = s.position_target]
       ELSE LET adjust == s.position_target - s.old_value
            IN IF adjust < 0
               THEN [s EXCEPT !.position_adjust_usd = adjust,
                              !.position_adjust_quantity =
                                  estimate_asset_quantity(s.pair, adjust)]
               ELSE [s EXCEPT !.position_adjust_usd = adjust]

\* the record needs position_manager.estimate_asset_quantity
AsksQuantity(s0, equity) ==
    LET s == CalculateTarget(s0, equity)
    IN ~is_flipping(s) /\ s.position_adjust_usd < 0

\* the record when estimate_asset_quantity raises: the fields before the
\* call are set, the quantity is not
Interrupted(s0, equity) ==
    [CalculateTarget(s0, equity) EXCEPT
        !.position_adjust_quantity = s0.position_adjust_quantity]

\* the for loop, from signal i on; it stops at the first failure
RECURSIVE CalculateLoop(_, _, _, _, _)
CalculateLoop(sigs, i, equity, pm, calls) ==
    IF i > Len(sigs)
    THEN [ok |-> TRUE, signals |-> sigs, calls |-> calls]
    ELSE IF AsksQuantity(sigs[i], equity) /\ Raises(pm, calls + 1)
    THEN [ok |-> FALSE, signals |-> [sigs EXCEPT ![i] = Interrupted(sigs[i], equity)],
          calls |-> calls + 1]
    ELSE CalculateLoop([sigs EXCEPT ![i] = CalculateTarget(sigs[i], equity)], i + 1,
                       equity, pm,
                       IF AsksQuantity(sigs[i], equity) THEN calls + 1 ELSE calls)

calculate_target_positions(equity, pm) ==
    LET run == CalculateLoop(signals, 1, equity, pm, 0) IN
    /\ investable_equity' = equity
    /\ signals' = run.signals
    /\ last' = Outcome("calculate_target_positions", run.ok,
                       [investable_equity |-> equity, pm |-> pm, pm_calls |-> run.calls])
    /\ UNCHANGED <<raw_signals, close_position_weight_epsilon, portfolio,
                   requested, returned>>

----------------------------------------------------------------------------
(* PositionManager and TradeExecution, as the generator uses them *)

get_current_position_for_pair(pf, pair) ==
    LET found == SelectSeq(pf.open_positions, LAMBDA p : p.pair = pair)
    IN IF found = <<>> THEN None ELSE Some(Head(found))

Trade(trade_id, kind, position_id, pair, usd, quantity, weight, leverage, stop_loss, take_profit, trailing_stop_loss, reduce) ==
    [trade_id |-> trade_id,
     kind |-> kind,
     position_id |-> position_id,
     pair |-> pair,
     usd |-> usd,
     quantity |-> quantity,
     weight |-> weight,
     leverage |-> leverage,
     stop_loss |-> stop_loss,
     take_profit |-> take_profit,
     trailing_stop_loss |-> trailing_stop_loss,
     reduce |-> reduce]

\* close_position(position, TradeType.rebalance): the whole position goes
close_position(trade_id, position) ==
    Trade(trade_id, "close", position.position_id, position.pair, position.value,
          0, 0, None, None, None, None, TRUE)

\* open_short(underlying, value, leverage, ...): a new position on the short market
open_short(trade_id, pf, underlying, value, leverage, take_profit, stop_loss, trailing_stop_loss) ==
    Trade(trade_id, "open_short", pf.next_position_id, get_shorting_pair(underlying),
          value, 0, 0, leverage, stop_loss, take_profit, trailing_stop_loss, FALSE)

\* adjust_short(position, new_value)
adjust_short(trade_id, position, new_value) ==
    Trade(trade_id, "adjust_short", position.position_id, position.pair, new_value,
          0, 0, None, None, None, None, new_value < position.value)

\* adjust_position(pair, dollar_delta, quantity_delta, weight, ...): on the open
\* position of the pair, or on a new one
adjust_position(trade_id, pf, pair, dollar_delta, quantity_delta, weight, stop_loss, take_profit, trailing_stop_loss) ==
    LET position == get_current_position_for_pair(pf, pair)
    IN Trade(trade_id, "adjust_position",
             IF position = None THEN pf.next_position_id ELSE Val(position).position_id,
             pair, dollar_delta, quantity_delta, weight, None,
             stop_loss, take_profit, trailing_stop_loss, dollar_delta < 0)

\* TradeExecution.get_execution_sort_position: sells and closes first
get_execution_sort_position(t) == IF t.reduce THEN -t.trade_id ELSE t.trade_id

\* list.sort(key=get_execution_sort_position): ascending and stable
RECURSIVE SortedByExecution(_)
SortedByExecution(seq) ==
    IF seq = <<>> THEN <<>>
    ELSE LET rest == SortedByExecution(Tail(seq))
             x == Head(seq)
             n == Cardinality({i \in 1..Len(rest) :
                      get_execution_sort_position(rest[i]) < get_execution_sort_position(x)})
         IN SubSeq(rest, 1, n) \o <<x>> \o SubSeq(rest, n + 1, Len(rest))

----------------------------------------------------------------------------
(* AlphaModel.generate_rebalance_trades_and_triggers *)

StepResult(ok, signal, trades, calls) ==
    [ok |-> ok, signal |-> signal, trades |-> trades, calls |-> calls]

\* the signal's trades were created: connect the signal to its position
Connected(s, trades, calls) ==
    StepResult(TRUE, [s EXCEPT !.position_id = Some(trades[1].position_id)], trades, calls)

\* mutant: a rebalance of exactly the threshold is dropped too
BelowTradeThreshold_Inclusive(s, min_trade_threshold) ==
    Abs(s.position_adjust_usd) <= min_trade_threshold /\ ~is_flipping(s)

\* the rebalance is too small to care about
BelowTradeThreshold(s, min_trade_threshold) ==
    Abs(s.position_adjust_usd) < min_trade_threshold /\ ~is_flipping(s)

\* mutant: a flipping signal is rebalanced whatever its weight
BelowCloseEpsilon_UnlessFlipping(s, epsilon) ==
    s.normalised_weight < epsilon /\ ~is_flipping(s)

\* the signal is too weak to keep a position
BelowCloseEpsilon(s, epsilon) == s.normalised_weight < epsilon

\* explicit close of the open position of a weak signal
DustCloses(trade_id, current_position) ==
    IF current_position # None
    THEN <<close_position(trade_id, Val(current_position))>>
    ELSE <<>>

\* mutant: the old position of a flipping signal is left open
FlipCloses_KeepsOld(trade_id, pf, s) == <<>>

\* a signal that switches between long and short closes its old position
FlipCloses(trade_id, pf, s) ==
    IF is_flipping(s)
    THEN LET old_position == get_current_position_for_pair(pf, s.old_pair)
         IN IF old_position # None
            THEN <<close_position(trade_id, Val(old_position))>>
            ELSE <<>>
    ELSE <<>>

\* open a new short rather than adjust the existing one
OpensNewShort(s) == is_flipping(s) \/ is_new(s)

OpenShortTrade(trade_id, pf, s) ==
    open_short(trade_id, pf, s.pair, s.position_target, s.leverage,
               s.take_profit, s.stop_loss, s.trailing_stop_loss)

AdjustShortTrade(trade_id, current_position, s) ==
    adjust_short(trade_id, current_position, s.position_target)

\* mutant: stop loss and take profit change places
SpotAdjustTrade_SwappedRisk(trade_id, pf, s) ==
    adjust_position(trade_id, pf, s.synthetic_pair, s.position_adjust_usd,
                    s.position_adjust_quantity, s.normalised_weight,
                    s.take_profit, s.stop_loss, s.trailing_stop_loss)

SpotAdjustTrade(trade_id, pf, s) ==
    adjust_position(trade_id, pf, s.synthetic_pair, s.position_adjust_usd,
                    s.position_adjust_quantity, s.normalised_weight,
                    s.stop_loss, s.take_profit, s.trailing_stop_loss)

\* mutant: a long signal with a leverage is traded as spot
IsSpotSignal_Always(s) == TRUE

\* a long signal without a leverage is a spot buy
IsSpotSignal(s) == s.leverage = None

\* mutant: a signal without trades passes
Traded_NoTradeCheck(s, closes, made, pm, k) ==
    IF Raises(pm, k) THEN StepResult(FALSE, s, closes, k)
    ELSE IF closes \o made = <<>> THEN StepResult(TRUE, s, <<>>, k)
    ELSE Connected(s, closes \o made, k)

\* the end of the rebalance branch: call number k was asked for the trades
\* `made`; assert len(position_rebalance_trades) >= 1
Traded(s, closes, made, pm, k) ==
    IF Raises(pm, k) THEN StepResult(FALSE, s, closes, k)
    ELSE IF closes \o made = <<>> THEN StepResult(FALSE, s, <<>>, k)
    ELSE Connected(s, closes \o made, k)

\* the body of the loop for one signal; calls0 position manager calls were
\* made before it
RebalanceSignal(s, pf, min_trade_threshold, epsilon, pm, calls0) ==
    LET looks == s.old_pair # NoPair
        c1 == IF looks THEN calls0 + 1 ELSE calls0
        current_position ==
            IF looks THEN get_current_position_for_pair(pf, s.old_pair)
            ELSE None
        tid == pf.next_trade_id
    IN
    IF looks /\ Raises(pm, c1)
    THEN StepResult(FALSE, s, <<>>, c1)
    ELSE IF s.synthetic_pair = NoPair
    THEN \* synthetic.base of None
         StepResult(FALSE, s, <<>>, c1)
    ELSE IF BelowTradeThreshold(s, min_trade_threshold)
    THEN StepResult(TRUE, [s EXCEPT !.position_adjust_ignored = TRUE], <<>>, c1)
    ELSE IF BelowCloseEpsilon(s, epsilon)
    THEN IF current_position = None THEN StepResult(TRUE, s, <<>>, c1)
         ELSE IF Raises(pm, c1 + 1) THEN StepResult(FALSE, s, <<>>, c1 + 1)
         ELSE StepResult(TRUE, s, Handed(pm, c1 + 1, DustCloses(tid, current_position)),
                         c1 + 1)
    ELSE
    LET c2 == IF is_flipping(s) THEN c1 + 1 ELSE c1
        closing == FlipCloses(tid, pf, s) # <<>>
        c3 == IF closing THEN c2 + 1 ELSE c2
        closes == Handed(pm, c3, FlipCloses(tid, pf, s))
        tid2 == tid + Len(closes)
        c4 == c3 + 1
    IN
    IF is_flipping(s) /\ Raises(pm, c2)
    THEN StepResult(FALSE, s, <<>>, c2)
    ELSE IF closing /\ Raises(pm, c3)
    THEN StepResult(FALSE, s, <<>>, c3)
    ELSE IF s.signal < 0
    THEN IF s.leverage = None
         THEN \* assert type(leverage) == float
              StepResult(FALSE, s, closes, c3)
         ELSE IF OpensNewShort(s)
         THEN Traded(s, closes, Handed(pm, c4, <<OpenShortTrade(tid2, pf, s)>>), pm, c4)
         ELSE IF current_position = None
         THEN \* adjust_short(None, ...)
              StepResult(FALSE, s, closes, c4)
         ELSE Traded(s, closes,
                     Handed(pm, c4, <<AdjustShortTrade(tid2, Val(current_position), s)>>),
                     pm, c4)
    ELSE IF IsSpotSignal(s)
    THEN Traded(s, closes, Handed(pm, c4, <<SpotAdjustTrade(tid2, pf, s)>>), pm, c4)
    ELSE \* raise NotImplementedError
         StepResult(FALSE, s, closes, c3)

\* the position manager's counters after it created the trades
AfterTrades(pf, trades) ==
    [pf EXCEPT !.next_trade_id = pf.next_trade_id + Len(trades),
               !.next_position_id = pf.next_position_id
                   + Cardinality({i \in 1..Len(trades) :
                                     trades[i].position_id = pf.next_position_id})]

\* the for loop, from signal i on; it stops at the first failure
RECURSIVE RebalanceLoop(_, _, _, _, _, _, _, _)

\* mutant: a failure is swallowed and the loop goes on to the next signal
RebalanceLoop_GoesOn(sigs, i, pf, trades, min_trade_threshold, epsilon, pm, calls) ==
    IF i > Len(sigs)
    THEN [ok |-> TRUE, signals |-> sigs, portfolio |-> pf, trades |-> trades,
          processed |-> Len(sigs), calls |-> calls]
    ELSE LET r == RebalanceSignal(sigs[i], pf, min_trade_threshold, epsilon, pm, calls)
         IN RebalanceLoop([sigs EXCEPT ![i] = r.signal], i + 1, AfterTrades(pf, r.trades),
                          trades \o r.trades, min_trade_threshold, epsilon, pm, r.calls)

RebalanceLoop(sigs, i, pf, trades, min_trade_threshold, epsilon, pm, calls) ==
    IF i > Len(sigs)
    THEN [ok |-> TRUE, signals |-> sigs, portfolio |-> pf, trades |-> trades,
          processed |-> Len(sigs), calls |-> calls]
    ELSE LET r == RebalanceSignal(sigs[i], pf, min_trade_threshold, epsilon, pm, calls)
             sigs2 == [sigs EXCEPT ![i] = r.signal]
             pf2 == AfterTrades(pf, r.trades)
         IN IF r.ok
            THEN RebalanceLoop(sigs2, i + 1, pf2, trades \o r.trades,
                               min_trade_threshold, epsilon, pm, r.calls)
            ELSE [ok |-> FALSE, signals |-> sigs2, portfolio |-> pf2,
                  trades |-> trades \o r.trades, processed |-> i - 1, calls |-> r.calls]

\* mutant: the trades are returned in the order they were created
ReturnedTrades_Unsorted(trades) == trades

\* the list the call returns
ReturnedTrades(trades) == SortedByExecution(trades)

generate_rebalance_trades_and_triggers(min_trade_threshold, use_spot_for_long, pm) ==
    LET run == RebalanceLoop(signals, 1, portfolio, <<>>, min_trade_threshold,
                             close_position_weight_epsilon, pm, 0)
        args == [min_trade_threshold |-> min_trade_threshold,
                 use_spot_for_long |-> use_spot_for_long,
                 processed |-> IF use_spot_for_long THEN run.processed ELSE 0,
                 pm |-> pm,
                 pm_calls |-> IF use_spot_for_long THEN run.calls ELSE 0]
    IN
    IF ~use_spot_for_long
    THEN \* assert use_spot_for_long
         /\ last' = Outcome("generate_rebalance_trades_and_triggers", FALSE, args)
         /\ UNCHANGED <<raw_signals, signals, investable_equity,
                        close_position_weight_epsilon, portfolio, requested, returned>>
    ELSE /\ signals' = run.signals
         /\ portfolio' = run.portfolio
         /\ requested' = run.trades
         /\ returned' = IF run.ok THEN ReturnedTrades(run.trades) ELSE <<>>
         /\ last' = Outcome("generate_rebalance_trades_and_triggers", run.ok, args)
         /\ UNCHANGED <<raw_signals, investable_equity, close_position_weight_epsilon>>

----------------------------------------------------------------------------
(* One strategy cycle: decide_trades() drives a fresh AlphaModel through    *)
(* the pipeline; a failing call ends the cycle                              *)

Init ==
    /\ raw_signals = <<>>
    /\ signals = <<>>
    /\ investable_equity = 0
    /\ close_position_weight_epsilon = DefaultEpsilon
    /\ portfolio = UnreadPortfolio
    /\ requested = <<>>
    /\ returned = <<>>
    /\ last = Outcome("__init__", TRUE, <<>>)
    /\ pc = "set_signal"
    /\ ncalls = 0
    /\ twin = None
    /\ buffer = None

\* where the cycle goes after the call that has just been made; the cycle
\* has one model
Goto(next) == pc' = (IF last'.ok THEN next ELSE "failed") /\ UNCHANGED <<twin, buffer>>

SetSignal ==
    /\ pc = "set_signal"
    /\ ncalls < MaxSetSignalCalls
    /\ \E pair \in Pairs, alpha \in Alphas, risk \in RiskChoices, leverage \in Leverages :
           set_signal(pair, alpha, risk, leverage)
    /\ ncalls' = ncalls + 1
    /\ Goto("set_signal")

SelectTopSignals ==
    /\ pc = "set_signal"
    /\ \E count \in Counts, threshold \in Thresholds :
           select_top_signals(count, threshold)
    /\ Goto("assign_weights")
    /\ UNCHANGED ncalls

AssignWeights ==
    /\ pc = "assign_weights"
    /\ \E method \in Methods : assign_weights(method)
    /\ Goto("normalise_weights")
    /\ UNCHANGED ncalls

NormaliseWeights ==
    /\ pc = "normalise_weights"
    /\ normalise_weights
    /\ Goto("update_old_weights")
    /\ UNCHANGED ncalls

UpdateOldWeights ==
    /\ pc = "update_old_weights"
    /\ \E pf \in Portfolios : update_old_weights(pf)
    /\ Goto("calculate_target_positions")
    /\ UNCHANGED ncalls

CalculateTargetPositions ==
    /\ pc = "calculate_target_positions"
    /\ \E equity \in Equities : calculate_target_positions(equity, ReliablePM)
    /\ Goto("generate_rebalance_trades")
    /\ UNCHANGED ncalls

GenerateRebalanceTrades ==
    /\ pc = "generate_rebalance_trades"
    /\ \E min_trade_threshold \in MinTradeThresholds, use_spot_for_long \in BOOLEAN :
           generate_rebalance_trades_and_triggers(min_trade_threshold, use_spot_for_long,
                                                  ReliablePM)
    /\ Goto("done")
    /\ UNCHANGED ncalls

Next ==
    \/ SetSignal
    \/ SelectTopSignals
    \/ AssignWeights
    \/ NormaliseWeights
    \/ UpdateOldWeights
    \/ CalculateTargetPositions
    \/ GenerateRebalanceTrades

Spec == Init /\ [][Next]_vars

----------------------------------------------------------------------------
(* A caller that makes the calls in any order and any number of times: the  *)
(* model enforces no order, only the first failure ends the cycle.  The     *)
(* portfolio is the same one for the whole cycle.                           *)

AnyOrderInit ==
    /\ raw_signals = <<>>
    /\ signals = <<>>
    /\ investable_equity = 0
    /\ close_position_weight_epsilon = DefaultEpsilon
    /\ portfolio = UnreadPortfolio
    /\ requested = <<>>
    /\ returned = <<>>
    /\ last = Outcome("__init__", TRUE, <<>>)
    /\ pc = "any"
    /\ ncalls = 0
    /\ twin = None
    /\ buffer = None

\* one more call may be made
MayCall == pc = "any" /\ ncalls < MaxAnyOrderCalls

\* the call has been made
Called == ncalls' = ncalls + 1 /\ Goto("any")

\* the pairs and leverages this caller registers: spot pairs, with 2x or no
\* leverage
AnyOrderPairs == {SpotPair(a) : a \in Assets}
AnyOrderLeverages == {None, Some(2)}

AnySetSignal ==
    /\ MayCall
    /\ \E pair \in AnyOrderPairs, alpha \in Alphas, risk \in RiskChoices,
          leverage \in AnyOrderLeverages :
           set_signal(pair, alpha, risk, leverage)
    /\ Called

AnySelectTopSignals ==
    /\ MayCall
    /\ \E count \in Counts, threshold \in Thresholds :
           select_top_signals(count, threshold)
    /\ Called

AnyAssignWeights ==
    /\ MayCall
    /\ \E method \in Methods : assign_weights(method)
    /\ Called

AnyNormaliseWeights ==
    /\ MayCall
    /\ normalise_weights
    /\ Called

AnyUpdateOldWeights ==
    /\ MayCall
    /\ \E pf \in Portfolios :
           /\ portfolio # UnreadPortfolio => pf.open_positions = portfolio.open_positions
           /\ update_old_weights(pf)
    /\ Called

AnyCalculateTargetPositions ==
    /\ MayCall
    /\ \E equity \in Equities : calculate_target_positions(equity, ReliablePM)
    /\ Called

AnyGenerateRebalanceTrades ==
    /\ MayCall
    /\ \E min_trade_threshold \in MinTradeThresholds, use_spot_for_long \in BOOLEAN :
           generate_rebalance_trades_and_triggers(min_trade_threshold, use_spot_for_long,
                                                  ReliablePM)
    /\ Called

AnyOrderNext ==
    \/ AnySetSignal
    \/ AnySelectTopSignals
    \/ AnyAssignWeights
    \/ AnyNormaliseWeights
    \/ AnyUpdateOldWeights
    \/ AnyCalculateTargetPositions
    \/ AnyGenerateRebalanceTrades

AnyOrderSpec == AnyOrderInit /\ [][AnyOrderNext]_vars

----------------------------------------------------------------------------
(* One strategy cycle against a position manager that can fail: any one of *)
(* its calls may raise, or its calls may hand back no trade                *)

FaultyPMInit ==
    /\ raw_signals = <<>>
    /\ signals = <<>>
    /\ investable_equity = 0
    /\ close_position_weight_epsilon = DefaultEpsilon
    /\ portfolio = UnreadPortfolio
    /\ requested = <<>>
    /\ returned = <<>>
    /\ last = Outcome("__init__", TRUE, <<>>)
    /\ pc = "set_signal"
    /\ ncalls = 0
    /\ twin = None
    /\ buffer = None

\* registration with valid pairs, without risk parameters
FaultyPMSetSignal ==
    /\ pc = "set_signal"
    /\ ncalls < MaxSetSignalCalls
    /\ \E pair \in AnyOrderPairs, alpha \in Alphas, leverage \in AnyOrderLeverages :
           set_signal(pair, alpha, <<None, None, None>>, leverage)
    /\ ncalls' = ncalls + 1
    /\ Goto("set_signal")

\* every signal is selected
FaultyPMSelectTopSignals ==
    /\ pc = "set_signal"
    /\ select_top_signals(Cardinality(Assets), 0)
    /\ Goto("assign_weights")
    /\ UNCHANGED ncalls

\* the default weighting
FaultyPMAssignWeights ==
    /\ pc = "assign_weights"
    /\ assign_weights([name |-> "weight_by_1_slash_n", table |-> <<>>])
    /\ Goto("normalise_weights")
    /\ UNCHANGED ncalls

\* estimate_asset_quantity can raise
FaultyPMCalculateTargetPositions ==
    /\ pc = "calculate_target_positions"
    /\ \E equity \in Equities,
          pm \in {b \in PMBehaviours : b.mode # "empty" /\ b.at <= Cardinality(Assets)} :
           calculate_target_positions(equity, pm)
    /\ Goto("generate_rebalance_trades")
    /\ UNCHANGED ncalls

FaultyPMGenerateRebalanceTrades ==
    /\ pc = "generate_rebalance_trades"
    /\ \E min_trade_threshold \in MinTradeThresholds, pm \in PMBehaviours :
           generate_rebalance_trades_and_triggers(min_trade_threshold, TRUE, pm)
    /\ Goto("done")
    /\ UNCHANGED ncalls

FaultyPMNext ==
    \/ FaultyPMSetSignal
    \/ FaultyPMSelectTopSignals
    \/ FaultyPMAssignWeights
    \/ NormaliseWeights
    \/ UpdateOldWeights
    \/ FaultyPMCalculateTargetPositions
    \/ FaultyPMGenerateRebalanceTrades

FaultyPMSpec == FaultyPMInit /\ [][FaultyPMNext]_vars

----------------------------------------------------------------------------
(* The methods of one TradingPairSignal record, asked on records of every  *)
(* shape: the record is signals[1]                                         *)

SignalRecords ==
    {[NewSignal(SpotPair(1), signal, None, None, None, leverage, old_weight, 0, old_pair)
         EXCEPT !.normalised_weight = weight] :
        signal \in Alphas, leverage \in AnyOrderLeverages, old_weight \in {0, WeightScale},
        weight \in {0, WeightScale},
        old_pair \in {NoPair, SpotPair(1), ShortPair(1), LongPair(1)}}

SignalInit ==
    /\ raw_signals = <<>>
    /\ signals \in {<<s>> : s \in SignalRecords}
    /\ investable_equity = 0
    /\ close_position_weight_epsilon = DefaultEpsilon
    /\ portfolio = UnreadPortfolio
    /\ requested = <<>>
    /\ returned = <<>>
    /\ last = Outcome("__init__", TRUE, <<>>)
    /\ pc = "record"
    /\ ncalls = 0
    /\ twin = None
    /\ buffer = None

IsFlipping ==
    /\ pc = "record"
    /\ last' = Outcome("is_flipping", TRUE, [result |-> is_flipping(signals[1])])
    /\ pc' = "asked"
    /\ UNCHANGED <<raw_signals, signals, investable_equity, close_position_weight_epsilon,
                   portfolio, requested, returned, ncalls, twin, buffer>>

SignalNext == IsFlipping

SignalSpec == SignalInit /\ [][SignalNext]_vars

----------------------------------------------------------------------------
(* A cycle that asks for the weight changes once the old weights are read *)

CalculateWeightDiffs ==
    /\ pc = "calculate_target_positions"
    /\ calculate_weight_diffs
    /\ Goto("calculate_target_positions")
    /\ UNCHANGED ncalls

WeightDiffsNext ==
    \/ SetSignal
    \/ SelectTopSignals
    \/ AssignWeights
    \/ NormaliseWeights
    \/ UpdateOldWeights
    \/ CalculateWeightDiffs

WeightDiffsSpec == Init /\ [][WeightDiffsNext]_vars

----------------------------------------------------------------------------
(* Cycle after cycle: the trades a cycle returned are executed in full on  *)
(* the portfolio, and the next cycle starts with a fresh model             *)

\* open_positions after one trade was executed in full
ExecutedTrade(positions, t) ==
    LET others == SelectSeq(positions, LAMBDA p : p.position_id # t.position_id)
        held == SelectSeq(positions, LAMBDA p : p.position_id = t.position_id)
        value == IF t.kind = "close" THEN 0
                 ELSE IF t.kind = "adjust_position"
                 THEN (IF held = <<>> THEN 0 ELSE held[1].value) + t.usd
                 ELSE t.usd
    IN IF value <= 0 THEN others
       ELSE IF held = <<>> THEN Append(positions, Position(t.position_id, t.pair, value))
       ELSE [i \in 1..Len(positions) |->
                IF positions[i].position_id = t.position_id
                THEN [positions[i] EXCEPT !.value = value]
                ELSE positions[i]]

RECURSIVE ExecutedTrades(_, _)
ExecutedTrades(positions, trades) ==
    IF trades = <<>> THEN positions
    ELSE ExecutedTrades(ExecutedTrade(positions, Head(trades)), Tail(trades))

\* a strategy starts without positions
CyclesInit ==
    /\ raw_signals = <<>>
    /\ signals = <<>>
    /\ investable_equity = 0
    /\ close_position_weight_epsilon = DefaultEpsilon
    /\ portfolio = [open_positions |-> <<>>, next_position_id |-> 1, next_trade_id |-> 1]
    /\ requested = <<>>
    /\ returned = <<>>
    /\ last = Outcome("__init__", TRUE, <<>>)
    /\ pc = "set_signal"
    /\ ncalls = 0
    /\ twin = None
    /\ buffer = None

\* update_old_weights reads the portfolio the executions have left
CycleUpdateOldWeights ==
    /\ pc = "update_old_weights"
    /\ update_old_weights(portfolio)
    /\ Goto("calculate_target_positions")
    /\ UNCHANGED ncalls

\* the returned trades are executed and decide_trades() is called again
ExecuteAndStartOver ==
    /\ pc = "done"
    /\ portfolio.next_trade_id <= MaxExecutedTrades
    /\ portfolio' = [portfolio EXCEPT
                        !.open_positions = ExecutedTrades(@, returned)]
    /\ raw_signals' = <<>>
    /\ signals' = <<>>
    /\ investable_equity' = 0
    /\ requested' = <<>>
    /\ returned' = <<>>
    /\ last' = Outcome("__init__", TRUE, <<>>)
    /\ pc' = "set_signal"
    /\ ncalls' = 0
    /\ UNCHANGED <<close_position_weight_epsilon, twin, buffer>>

CyclesNext ==
    \/ FaultyPMSetSignal
    \/ FaultyPMSelectTopSignals
    \/ AssignWeights
    \/ NormaliseWeights
    \/ CycleUpdateOldWeights
    \/ CalculateTargetPositions
    \/ GenerateRebalanceTrades
    \/ ExecuteAndStartOver

CyclesSpec == CyclesInit /\ [][CyclesNext]_vars

----------------------------------------------------------------------------
(* A cycle of a model built with a close_position_weight_epsilon of its    *)
(* own: the default, or 0                                                  *)

Epsilons == {0, DefaultEpsilon}

ConfiguredInit ==
    /\ raw_signals = <<>>
    /\ signals = <<>>
    /\ investable_equity = 0
    /\ close_position_weight_epsilon \in Epsilons
    /\ portfolio = UnreadPortfolio
    /\ requested = <<>>
    /\ returned = <<>>
    /\ last = Outcome("__init__", TRUE, <<>>)
    /\ pc = "set_signal"
    /\ ncalls = 0
    /\ twin = None
    /\ buffer = None

ConfiguredNext ==
    \/ FaultyPMSetSignal
    \/ FaultyPMSelectTopSignals
    \/ AssignWeights
    \/ NormaliseWeights
    \/ UpdateOldWeights
    \/ CalculateTargetPositions
    \/ GenerateRebalanceTrades

ConfiguredSpec == ConfiguredInit /\ [][ConfiguredNext]_vars

----------------------------------------------------------------------------
(* A caller that registers its signals and then makes the selection and    *)
(* weighting calls in any order and any number of times, up to             *)
(* calculate_target_positions                                              *)

MayRepeat == pc \in {"set_signal", "weights"} /\ ncalls < MaxSetSignalCalls + MaxRepeatCalls

Repeated == ncalls' = ncalls + 1 /\ Goto("weights")

RepeatSelectTopSignals ==
    /\ MayRepeat
    /\ \E count \in Counts, threshold \in Thresholds :
           select_top_signals(count, threshold)
    /\ Repeated

RepeatAssignWeights ==
    /\ MayRepeat
    /\ assign_weights([name |-> "weight_by_1_slash_n", table |-> <<>>])
    /\ Repeated

RepeatNormaliseWeights ==
    /\ MayRepeat
    /\ normalise_weights
    /\ Repeated

\* the portfolio has no position, or one spot position
RepeatUpdateOldWeights ==
    /\ MayRepeat
    /\ \E pf \in {p \in Portfolios : Len(p.open_positions) <= 1
                                       /\ \A q \in Range(p.open_positions) :
                                              is_spot(q.pair) /\ q.value > 0} :
           /\ portfolio # UnreadPortfolio => pf = portfolio
           /\ update_old_weights(pf)
    /\ Repeated

RepeatCalculateTargetPositions ==
    /\ MayRepeat
    /\ \E equity \in Equities : calculate_target_positions(equity, ReliablePM)
    /\ ncalls' = ncalls + 1
    /\ Goto("done")

RepeatNext ==
    \/ FaultyPMSetSignal
    \/ RepeatSelectTopSignals
    \/ RepeatAssignWeights
    \/ RepeatNormaliseWeights
    \/ RepeatUpdateOldWeights
    \/ RepeatCalculateTargetPositions

RepeatSpec == Init /\ [][RepeatNext]_vars

----------------------------------------------------------------------------
(* Two fresh models in one cycle: every call is made on both with the same *)
(* arguments.  The first model is the state of the module, the second is   *)
(* `twin`; there is no portfolio                                           *)

TwoModelsInit ==
    /\ raw_signals = <<>>
    /\ signals = <<>>
    /\ investable_equity = 0
    /\ close_position_weight_epsilon = DefaultEpsilon
    /\ portfolio = UnreadPortfolio
    /\ requested = <<>>
    /\ returned = <<>>
    /\ last = Outcome("__init__", TRUE, <<>>)
    /\ pc = "set_signal"
    /\ ncalls = 0
    /\ twin = [raw_signals |-> <<>>, signals |-> <<>>]
    /\ buffer = None

\* the twin's signals with one field of every record replaced
TwinSignals(field, values) ==
    [i \in 1..Len(twin.signals) |->
        IF field = "raw_weight"
        THEN [twin.signals[i] EXCEPT !.raw_weight = values[i]]
        ELSE [twin.signals[i] EXCEPT !.normalised_weight = values[i]]]

BothSetSignal ==
    /\ pc = "set_signal"
    /\ ncalls < MaxSetSignalCalls
    /\ \E pair \in AnyOrderPairs, alpha \in Alphas, leverage \in AnyOrderLeverages :
           /\ set_signal(pair, alpha, <<None, None, None>>, leverage)
           /\ twin' = IF SetSignalFails(pair, alpha, leverage) THEN twin
                      ELSE [twin EXCEPT !.raw_signals =
                               SetSignalStore(@, pair, alpha, <<None, None, None>>, leverage)]
    /\ ncalls' = ncalls + 1
    /\ pc' = IF last'.ok THEN "set_signal" ELSE "failed"
    /\ UNCHANGED buffer

BothSelectTopSignals ==
    /\ pc = "set_signal"
    /\ \E count \in Counts, threshold \in Thresholds :
           /\ select_top_signals(count, threshold)
           /\ twin' = [twin EXCEPT !.signals =
                          TopSignals([i \in 1..Len(twin.raw_signals) |->
                                         twin.raw_signals[i].rec], count, threshold)]
    /\ pc' = "assign_weights"
    /\ UNCHANGED <<ncalls, buffer>>

BothAssignWeights ==
    /\ pc = "assign_weights"
    /\ \E method \in Methods :
           /\ assign_weights(method)
           /\ twin' = [twin EXCEPT !.signals =
                          TwinSignals("raw_weight",
                              ApplyMethod(method, [i \in 1..Len(twin.signals) |->
                                                      twin.signals[i].signal]))]
    /\ pc' = "normalise_weights"
    /\ UNCHANGED <<ncalls, buffer>>

BothNormaliseWeights ==
    /\ pc = "normalise_weights"
    /\ normalise_weights
    /\ twin' = [twin EXCEPT !.signals =
                   TwinSignals("normalised_weight",
                       normalise([i \in 1..Len(twin.signals) |->
                                     twin.signals[i].raw_weight]))]
    /\ pc' = "calculate_target_positions"
    /\ UNCHANGED <<ncalls, buffer>>

BothCalculateTargetPositions ==
    /\ pc = "calculate_target_positions"
    /\ \E equity \in Equities :
           /\ calculate_target_positions(equity, ReliablePM)
           /\ twin' = [twin EXCEPT !.signals =
                          CalculateLoop(@, 1, equity, ReliablePM, 0).signals]
    /\ pc' = "done"
    /\ UNCHANGED <<ncalls, buffer>>

TwoModelsNext ==
    \/ BothSetSignal
    \/ BothSelectTopSignals
    \/ BothAssignWeights
    \/ BothNormaliseWeights
    \/ BothCalculateTargetPositions

TwoModelsSpec == TwoModelsInit /\ [][TwoModelsNext]_vars

----------------------------------------------------------------------------
(* RingBufferHandler: the log records kept in memory                       *)

BufferSizes == 0..MaxBufferSize

Timestamps == {1, 2}

\* the log records a caller can emit as its k-th: created at one of the
\* timestamps, with or without exc_info, with args that fit the format string
\* of msg or not; msg k tells the records apart
LogRecords(k) ==
    {[created |-> t, levelno |-> (IF exc THEN 40 ELSE 20), msg |-> k,
      args_fit |-> fit, exc_info |-> exc] :
        t \in Timestamps, fit \in BOOLEAN, exc \in BOOLEAN}

\* record.getMessage() raises TypeError; it is called for a record without
\* exc_info only
ExportRaises(record) == ~record.exc_info /\ ~record.args_fit

ExportedRecord_export(record) ==
    [timestamp |-> record.created,
     level |-> IF record.levelno = 40 THEN "error" ELSE "info",
     message |-> IF record.exc_info THEN <<"repr", record.msg>>
                 ELSE <<"getMessage", record.msg>>,
     exception_type |-> IF record.exc_info THEN Some("et") ELSE None,
     traceback_data |-> IF record.exc_info THEN Some("tb") ELSE None,
     level_number |-> record.levelno,
     formatted_data |-> IF record.exc_info THEN Some("format_exception") ELSE None]

\* records.sort(key=timestamp): a stable sort
RECURSIVE SortByTimestamp(_)
SortByTimestamp(records) ==
    IF records = <<>> THEN <<>>
    ELSE LET n == Len(records)
             init == SortByTimestamp(SubSeq(records, 1, n - 1))
             e == records[n]
             k == Cardinality({i \in 1..Len(init) : init[i].timestamp <= e.timestamp})
         IN  SubSeq(init, 1, k) \o <<e>> \o SubSeq(init, k + 1, Len(init))

\* deque.append on a deque full at maxlen drops the item on the left
emit_DropsNewest(record) ==
    buffer' = [buffer EXCEPT !.items =
                  IF Len(@) < buffer.maxlen THEN Append(@, record) ELSE @]

emit(record) ==
    buffer' = [buffer EXCEPT !.items =
                  IF buffer.maxlen = 0 THEN <<>>
                  ELSE IF Len(@) = buffer.maxlen THEN Append(Tail(@), record)
                  ELSE Append(@, record)]

export ==
    LET items == buffer.items
        raises == \E i \in 1..Len(items) : ExportRaises(items[i])
        records == [i \in 1..Len(items) |-> ExportedRecord_export(items[i])]
    IN  /\ last' = IF raises THEN Outcome("export", FALSE, <<>>)
                   ELSE Outcome("export", TRUE, [result |-> SortByTimestamp(records)])
        /\ UNCHANGED buffer

RingBufferInit ==
    /\ raw_signals = <<>>
    /\ signals = <<>>
    /\ investable_equity = 0
    /\ close_position_weight_epsilon = DefaultEpsilon
    /\ portfolio = UnreadPortfolio
    /\ requested = <<>>
    /\ returned = <<>>
    /\ last = Outcome("__init__", TRUE, <<>>)
    /\ pc = "logging"
    /\ ncalls = 0
    /\ twin = None
    /\ \E buffer_size \in BufferSizes : buffer = [maxlen |-> buffer_size, items |-> <<>>]

Emit ==
    /\ pc = "logging"
    /\ ncalls < MaxEmits
    /\ \E record \in LogRecords(ncalls + 1) :
           /\ emit(record)
           /\ last' = Outcome("emit", TRUE, record)
    /\ ncalls' = ncalls + 1
    /\ UNCHANGED <<raw_signals, signals, investable_equity, close_position_weight_epsilon,
                   portfolio, requested, returned, pc, twin>>

Export ==
    /\ pc = "logging"
    /\ export
    /\ UNCHANGED <<raw_signals, signals, investable_equity, close_position_weight_epsilon,
                   portfolio, requested, returned, pc, ncalls, twin>>

RingBufferNext == Emit \/ Export

RingBufferSpec == RingBufferInit /\ [][RingBufferNext]_vars

----------------------------------------------------------------------------
(* Properties of generate_rebalance_trades_and_triggers *)

GenerateOp == "generate_rebalance_trades_and_triggers"

\* the call has been made / has returned its list
Generated == last.op = GenerateOp
GenerateReturned == Generated /\ last.ok

\* indexes of the signals whose loop iteration ran to its end
Processed == IF Generated THEN 1..last.args.processed ELSE {}

\* the trades created / returned for the asset of a signal
RequestedFor(s) == SelectSeq(requested, LAMBDA t : t.pair.asset = s.pair.asset)
ReturnedFor(s) == SelectSeq(returned, LAMBDA t : t.pair.asset = s.pair.asset)

\* the open positions on the asset of a signal
HeldPositions(s) == {p \in Range(portfolio.open_positions) : p.pair.asset = s.pair.asset}

\* C1: for every selected signal whose normalised_weight is below
\* close_position_weight_epsilon and whose asset has an open position, the
\* returned list holds a close of that position, whatever position_adjust_usd
\* and min_trade_threshold are.
C1_DustAlwaysClosed ==
    GenerateReturned =>
        \A i \in 1..Len(signals) :
            signals[i].normalised_weight < close_position_weight_epsilon =>
                \A p \in HeldPositions(signals[i]) :
                    \E t \in Range(returned) :
                        t.kind = "close" /\ t.position_id = p.position_id

\* a held spot position, a short signal with a leverage, a weight that is
\* not dust
FlipsSpotToShort(s) ==
    /\ s.old_pair # NoPair
    /\ is_spot(s.old_pair)
    /\ s.signal < 0
    /\ s.leverage # None
    /\ s.normalised_weight >= close_position_weight_epsilon
    /\ s.normalised_weight # 0
    /\ HeldPositions(s) # {}

\* trades is <<close of the held position, open_short at the full target>>
IsCloseThenOpenShort(trades, s) ==
    /\ Len(trades) = 2
    /\ trades[1].kind = "close"
    /\ trades[1].pair = s.old_pair
    /\ \E p \in HeldPositions(s) : trades[1].position_id = p.position_id
    /\ trades[2].kind = "open_short"
    /\ trades[2].pair = get_shorting_pair(s.pair)
    /\ trades[2].usd = s.position_target
    /\ trades[2].leverage = s.leverage

\* C2: for a signal that flips a held spot position to a short, the position
\* manager is asked to close the old position and then to open a short at the
\* full position_target; both trades are in the returned list, the close
\* first.
C2_FlipClosesThenOpensShort ==
    \A i \in Processed :
        FlipsSpotToShort(signals[i]) =>
            /\ IsCloseThenOpenShort(RequestedFor(signals[i]), signals[i])
            /\ last.ok => IsCloseThenOpenShort(ReturnedFor(signals[i]), signals[i])

C2_Witness ==
    /\ GenerateReturned
    /\ \E i \in Processed :
          /\ FlipsSpotToShort(signals[i])
          /\ signals[i].old_value > 0
          /\ signals[i].position_target > signals[i].old_value
          /\ RequestedFor(signals[i]) # <<>>

\* C3: a signal that is not flipping and whose |position_adjust_usd| is
\* strictly below min_trade_threshold gets position_adjust_ignored = TRUE and
\* is otherwise left as it was in signals, and no trade is requested for it;
\* a signal whose |position_adjust_usd| equals min_trade_threshold is not
\* ignored.
C3_SmallAdjustIgnored ==
    [][last'.op = GenerateOp =>
          \A i \in 1..last'.args.processed :
              LET s == signals[i]
                  threshold == last'.args.min_trade_threshold
              IN ~is_flipping(s) =>
                    /\ Abs(s.position_adjust_usd) < threshold =>
                          /\ signals'[i] = [s EXCEPT !.position_adjust_ignored = TRUE]
                          /\ \A k \in 1..Len(requested') :
                                 requested'[k].pair.asset # s.pair.asset
                    /\ Abs(s.position_adjust_usd) = threshold =>
                          ~signals'[i].position_adjust_ignored]_vars

C3_Witness ==
    /\ Generated
    /\ \E i \in Processed :
          /\ ~is_flipping(signals[i])
          /\ signals[i].position_adjust_usd # 0
          /\ Abs(signals[i].position_adjust_usd) < last.args.min_trade_threshold
          /\ signals[i].position_adjust_ignored
          /\ HeldPositions(signals[i]) # {}
    /\ \E j \in Processed :
          /\ ~is_flipping(signals[j])
          /\ Abs(signals[j].position_adjust_usd) = last.args.min_trade_threshold
          /\ RequestedFor(signals[j]) # <<>>

\* C4: the returned list is a permutation of the trades created for all the
\* signals, in the order of the execution sort key, every close or sell
\* before every open or buy.
C4_ReturnedSortedPermutation ==
    GenerateReturned =>
        /\ Len(returned) = Len(requested)
        /\ Range(returned) = Range(requested)
        /\ \A i, j \in 1..Len(returned) :
               i < j =>
                   /\ get_execution_sort_position(returned[i])
                          <= get_execution_sort_position(returned[j])
                   /\ ~(~returned[i].reduce /\ returned[j].reduce)

C4_Witness ==
    /\ GenerateReturned
    /\ Len(returned) >= 2
    /\ returned # requested
    /\ \E i, j \in 1..Len(requested) :
           i < j /\ ~requested[i].reduce /\ requested[j].reduce

\* the signal is rebalanced: the trade threshold does not drop it and its
\* weight is not dust
ReachesTradeBranch(s) ==
    /\ Abs(s.position_adjust_usd) >= last.args.min_trade_threshold \/ is_flipping(s)
    /\ s.normalised_weight >= close_position_weight_epsilon

HoldsShort(s) == \E p \in HeldPositions(s) : is_short(p.pair)

\* C5: for a rebalanced short signal, open_short at the full position_target
\* is requested exactly when the signal is flipping or no position is held
\* for the asset, adjust_short to position_target on the held short position
\* exactly when a short position is held, and never an open_short while a
\* short position of the asset is open.
C5_ShortOpensOrAdjusts ==
    \A i \in Processed :
        LET s == signals[i]
            trades == RequestedFor(s)
            opens == {k \in 1..Len(trades) : trades[k].kind = "open_short"}
            adjusts == {k \in 1..Len(trades) : trades[k].kind = "adjust_short"}
        IN (s.signal < 0 /\ ReachesTradeBranch(s)) =>
              /\ opens # {} <=> (is_flipping(s) \/ HeldPositions(s) = {})
              /\ \A k \in opens : trades[k].usd = s.position_target
              /\ adjusts # {} <=> HoldsShort(s)
              /\ \A k \in adjusts :
                     /\ trades[k].usd = s.position_target
                     /\ \E p \in HeldPositions(s) :
                            is_short(p.pair) /\ trades[k].position_id = p.position_id
              /\ ~(opens # {} /\ HoldsShort(s))

OfKind(trades, kind) == SelectSeq(trades, LAMBDA t : t.kind = kind)

\* C6: for a rebalanced spot signal (signal > 0, no leverage) exactly one
\* adjust_position is requested, on the spot pair, with position_adjust_usd,
\* position_adjust_quantity, the normalised weight and the signal's risk
\* parameters, and no short trade; when the portfolio holds no position, a
\* rebalanced spot signal is adjusted by its full position_target and a
\* rebalanced short signal is opened at its full position_target with its
\* leverage.
C6_SpotAdjustsPosition ==
    \A i \in Processed :
        LET s == signals[i]
            trades == RequestedFor(s)
            adjusts == OfKind(trades, "adjust_position")
            opens == OfKind(trades, "open_short")
        IN ReachesTradeBranch(s) =>
              /\ (s.signal > 0 /\ s.leverage = None) =>
                    /\ Len(adjusts) = 1
                    /\ adjusts[1].pair = s.pair
                    /\ adjusts[1].usd = s.position_adjust_usd
                    /\ adjusts[1].quantity = s.position_adjust_quantity
                    /\ adjusts[1].weight = s.normalised_weight
                    /\ adjusts[1].stop_loss = s.stop_loss
                    /\ adjusts[1].take_profit = s.take_profit
                    /\ adjusts[1].trailing_stop_loss = s.trailing_stop_loss
                    /\ opens = <<>>
                    /\ OfKind(trades, "adjust_short") = <<>>
                    /\ portfolio.open_positions = <<>> =>
                           /\ adjusts[1].usd = s.position_target
                           /\ trades = adjusts
              /\ (s.signal < 0 /\ portfolio.open_positions = <<>>) =>
                    /\ Len(opens) = 1
                    /\ trades = opens
                    /\ opens[1].usd = s.position_target
                    /\ opens[1].leverage = s.leverage

C6_Witness ==
    /\ GenerateReturned
    /\ \E i \in Processed :
          /\ signals[i].signal > 0
          /\ signals[i].leverage = None
          /\ ReachesTradeBranch(signals[i])
          /\ signals[i].stop_loss # None
          /\ signals[i].position_adjust_usd < 0
          /\ signals[i].position_adjust_quantity < 0
          /\ Len(OfKind(RequestedFor(signals[i]), "adjust_position")) = 1

LeveragedLong(s) == s.signal > 0 /\ s.leverage # None

NoSpotAdjustFor(s) == OfKind(RequestedFor(s), "adjust_position") = <<>>

\* C7: whenever a selected signal is a leveraged long, or use_spot_for_long
\* is false, the call fails and no adjust_position is requested for that
\* signal.
C7_LeveragedLongAlwaysFails ==
    Generated =>
        \A i \in 1..Len(signals) :
            (LeveragedLong(signals[i]) \/ ~last.args.use_spot_for_long) =>
                ~last.ok /\ NoSpotAdjustFor(signals[i])

\* C7, amended: whenever a selected leveraged long signal is rebalanced
\* (the trade threshold does not drop it and its weight is not below the
\* close epsilon), or use_spot_for_long is false, the call fails and returns
\* no list; no adjust_position is ever requested for a leveraged long signal.
C7_LeveragedLongFailsWhenRebalanced ==
    Generated =>
        /\ \A i \in 1..Len(signals) :
               LeveragedLong(signals[i]) => NoSpotAdjustFor(signals[i])
        /\ ((\E i \in 1..Len(signals) :
                 LeveragedLong(signals[i]) /\ ReachesTradeBranch(signals[i]))
            \/ ~last.args.use_spot_for_long)
              => ~last.ok /\ returned = <<>>

C7_Witness ==
    /\ Generated
    /\ last.args.use_spot_for_long
    /\ ~last.ok
    /\ requested # <<>>
    /\ \E i \in 1..Len(signals) :
          /\ LeveragedLong(signals[i])
          /\ ReachesTradeBranch(signals[i])
          /\ last.args.processed = i - 1

\* C8: every open_short requested carries a leverage that is set and
\* strictly positive, and a short signal that is rebalanced without a
\* leverage makes the call fail before any short trade is requested for it.
C8_OpenShortLeveragePositive ==
    /\ \A k \in 1..Len(requested) :
           requested[k].kind = "open_short" =>
               requested[k].leverage # None /\ Val(requested[k].leverage) > 0
    /\ Generated =>
           \A i \in 1..Len(signals) :
               (signals[i].signal < 0 /\ signals[i].leverage = None
                    /\ ReachesTradeBranch(signals[i])) =>
                   /\ ~last.ok
                   /\ OfKind(RequestedFor(signals[i]), "open_short") = <<>>
                   /\ OfKind(RequestedFor(signals[i]), "adjust_short") = <<>>

(* Properties of set_signal *)

PositiveNumber(leverage) == leverage # None /\ Val(leverage) > 0

\* C9: set_signal with alpha < 0 fails unless leverage is a positive number,
\* and a failing call leaves raw_signals unchanged.
C9_ShortNeedsPositiveLeverage ==
    [][(last'.op = "set_signal" /\ last'.args.alpha < 0) =>
          /\ ~PositiveNumber(last'.args.leverage) => ~last'.ok
          /\ ~last'.ok => raw_signals' = raw_signals]_vars

\* C10: set_signal fails for a pair that is not a spot pair, whatever alpha
\* is, and leaves raw_signals unchanged; every record of raw_signals and of
\* signals has a spot pair in its pair field at all times, also when its
\* synthetic_pair is a short pair.
C10_SignalsKeyedBySpotPair ==
    [][/\ (last'.op = "set_signal" /\ ~is_spot(last'.args.pair)) =>
              ~last'.ok /\ raw_signals' = raw_signals
       /\ \A i \in 1..Len(raw_signals') :
              is_spot(RawRecordOf(raw_signals'[i], signals').pair)
       /\ \A i \in 1..Len(signals') : is_spot(signals'[i].pair)]_vars

C10_Witness ==
    /\ last.op = "set_signal"
    /\ ~is_spot(last.args.pair)
    /\ last.args.alpha = 0
    /\ ~last.ok
    /\ raw_signals # <<>>
    /\ \A i \in 1..Len(raw_signals) : raw_signals[i].pair # get_pricing_pair(last.args.pair)

\* the record raw_signals holds for a pair
RawHas(raw, pair) == HasKey(raw, internal_id(pair))
RawRecordFor(raw, sigs, pair) == RawRecordOf(Get(raw, internal_id(pair)), sigs)

\* the step is an accepted set_signal call / an accepted call for the pair
SetSignalAccepted == last'.op = "set_signal" /\ last'.ok
SetSignalAcceptedFor(pair) == SetSignalAccepted /\ last'.args.pair = pair

\* C11: an accepted set_signal(pair, alpha) leaves a record for the pair in
\* raw_signals exactly when alpha is not 0, and set_signal(pair, 0) without a
\* record changes nothing; no other step adds or removes the record of a
\* pair; no record of raw_signals has signal 0.
C11_RawSignalsHoldNonZero ==
    [][/\ SetSignalAccepted =>
              /\ RawHas(raw_signals', last'.args.pair) <=> last'.args.alpha # 0
              /\ (last'.args.alpha = 0 /\ ~RawHas(raw_signals, last'.args.pair)) =>
                     raw_signals' = raw_signals
       /\ \A pair \in Pairs :
              RawHas(raw_signals', pair) # RawHas(raw_signals, pair) =>
                  SetSignalAcceptedFor(pair)
       /\ \A i \in 1..Len(raw_signals') :
              RawRecordOf(raw_signals'[i], signals').signal # 0]_vars

\* a selected pair lost its raw record to set_signal(pair, 0)
C11_Witness ==
    /\ last.op = "set_signal"
    /\ last.ok
    /\ last.args.alpha = 0
    /\ ncalls = 3
    /\ ~RawHas(raw_signals, last.args.pair)
    /\ \E i \in 1..Len(signals) :
           signals[i].pair = last.args.pair /\ signals[i].signal # 0

\* the record a call of set_signal creates
FreshSignal(args) ==
    NewSignal(args.pair, args.alpha, args.risk[1], args.risk[2], args.risk[3],
              args.leverage, 0, 0, NoPair)

\* what set_signal gives a record
Registered(s) ==
    <<s.signal, s.stop_loss, s.take_profit, s.trailing_stop_loss, s.leverage>>

\* C12: after an accepted set_signal(pair, alpha # 0, ...) the raw_signals
\* record of the pair is a fresh record with the call's signal, stop_loss,
\* take_profit, trailing_stop_loss and leverage, holding no weight, old
\* value or target of an earlier record; no other step changes these five
\* fields of the record of a pair.
C12_LastWriteWins ==
    [][/\ (SetSignalAccepted /\ last'.args.alpha # 0) =>
              RawRecordFor(raw_signals', signals', last'.args.pair) = FreshSignal(last'.args)
       /\ \A pair \in Pairs :
              (RawHas(raw_signals, pair) /\ RawHas(raw_signals', pair)
                   /\ ~SetSignalAcceptedFor(pair)) =>
                  Registered(RawRecordFor(raw_signals', signals', pair))
                      = Registered(RawRecordFor(raw_signals, signals, pair))]_vars

\* a pair whose selected record has a weight is registered again with other
\* values
C12_Witness ==
    /\ last.op = "set_signal"
    /\ last.ok
    /\ last.args.alpha # 0
    /\ RawHas(raw_signals, last.args.pair)
    /\ \E i \in 1..Len(signals) :
           /\ signals[i].pair = last.args.pair
           /\ signals[i].raw_weight # 0
           /\ signals[i].signal # last.args.alpha
           /\ signals[i].stop_loss # last.args.risk[1]
           /\ signals[i].leverage # last.args.leverage
    /\ RawRecordFor(raw_signals, signals, last.args.pair).raw_weight = 0

(* Properties of select_top_signals *)

Min(a, b) == IF a < b THEN a ELSE b

Keys(d) == {KeyOf(d[i]) : i \in 1..Len(d)}

\* C13: select_top_signals(count, threshold) leaves in signals only records
\* of raw_signals with |signal| >= threshold, each once, and exactly
\* min(count, number of such records) of them.
C13_SelectsEligibleUpToCount ==
    [][last'.op = "select_top_signals" =>
          LET eligible == {i \in 1..Len(RawRecords) :
                              Abs(RawRecords[i].signal) >= last'.args.threshold}
          IN /\ \A j \in 1..Len(signals') : \E i \in eligible : signals'[j] = RawRecords[i]
             /\ Cardinality(Keys(signals')) = Len(signals')
             /\ Len(signals') = Min(last'.args.count, Cardinality(eligible))]_vars

\* a signal of exactly the threshold is selected, a weaker one is not
C13_Witness ==
    /\ last.op = "select_top_signals"
    /\ Len(raw_signals) = 2
    /\ Len(signals) = 1
    /\ last.args.count = 2
    /\ Abs(signals[1].signal) = last.args.threshold
    /\ \E i \in 1..Len(raw_signals) :
           ~raw_signals[i].shared /\ Abs(raw_signals[i].rec.signal) < last.args.threshold

\* C14: after select_top_signals on freshly registered signals, no eligible
\* record that was left out has a strictly greater signal strength than a
\* selected one.
C14_SelectsStrongestSignals ==
    last.op = "select_top_signals" =>
        \A i \in 1..Len(raw_signals) :
            (~raw_signals[i].shared
                 /\ Abs(raw_signals[i].rec.signal) >= last.args.threshold) =>
                \A j \in 1..Len(signals) :
                    Abs(raw_signals[i].rec.signal) <= Abs(signals[j].signal)


\* C15: for every insertion order of the same raw_signals mapping,
\* select_top_signals(count, threshold) selects the same set of pairs.
C15_SelectionIgnoresInsertionOrder ==
    pc = "set_signal" =>
        \A count \in Counts, threshold \in Thresholds,
           order \in InsertionOrders(Len(raw_signals)) :
            Keys(TopSignals([i \in 1..Len(raw_signals) |-> RawRecords[order[i]]],
                            count, threshold))
                = Keys(TopSignals(RawRecords, count, threshold))

(* Properties of assign_weights and normalise_weights *)

NormalisedWeights == [i \in 1..Len(signals) |-> signals[i].normalised_weight]

\* 1.0, within the rounding of one unit for each weight
SumsToOne(weights) ==
    Sum(weights) <= WeightScale /\ Sum(weights) > WeightScale - Len(weights)

\* C16: after normalise_weights, which never fails, the normalised weights of
\* signals sum to 1 when some raw_weight is not 0, and are all 0 when signals
\* is empty or every raw_weight is 0.
C16_NormalisedSumsToOne ==
    last.op = "normalise_weights" =>
        /\ last.ok
        /\ IF \E i \in 1..Len(signals) : signals[i].raw_weight # 0
           THEN SumsToOne(NormalisedWeights)
           ELSE \A i \in 1..Len(signals) : signals[i].normalised_weight = 0

\* two unequal raw weights were normalised
C16_Witness ==
    /\ last.op = "normalise_weights"
    /\ Len(signals) = 2
    /\ signals[1].raw_weight # 0
    /\ signals[2].raw_weight # 0
    /\ signals[1].raw_weight # signals[2].raw_weight
    /\ signals[1].normalised_weight # signals[1].raw_weight
    /\ Sum(NormalisedWeights) = WeightScale

\* C17: after assign_weights with weight_by_1_slash_n and then
\* normalise_weights, every record of signals has a normalised_weight within
\* [0, 1] and every record with a negative signal a strictly positive one.
C17_OneOverNWeightsPositive ==
    [][(/\ last.op = "assign_weights"
        /\ last.args.method.name = "weight_by_1_slash_n"
        /\ last'.op = "normalise_weights") =>
          \A i \in 1..Len(signals') :
              /\ signals'[i].normalised_weight >= 0
              /\ signals'[i].normalised_weight <= WeightScale
              /\ signals'[i].signal < 0 => signals'[i].normalised_weight > 0]_vars

\* a short and a long signal share the portfolio in equal parts
C17_Witness ==
    /\ last.op = "normalise_weights"
    /\ Len(signals) = 2
    /\ \E i, j \in 1..Len(signals) :
           /\ signals[i].signal < 0
           /\ signals[j].signal > 0
           /\ signals[i].raw_weight = WeightScale \div 2
           /\ signals[i].normalised_weight = WeightScale \div 2
           /\ signals[j].normalised_weight = WeightScale \div 2

(* Properties of update_old_weights *)

\* the record signals holds for a pair
HasRecordFor(sigs, pair) == HasKey(sigs, internal_id(pair))
RecordFor(sigs, pair) == Get(sigs, internal_id(pair))

\* the portfolio's share of a position
ShareOf(pf, position) ==
    (position.value * WeightScale) \div get_position_equity_and_loan_nav(pf)

\* the record carries the position as its old position
CarriesPosition(s, pf, position) ==
    /\ s.pair = get_pricing_pair(position.pair)
    /\ s.old_pair = position.pair
    /\ s.old_value = position.value
    /\ s.old_weight = ShareOf(pf, position)

\* the record update_old_weights creates for a position without a signal
IsCreatedFor(s, position) ==
    /\ s.signal = 0
    /\ s.raw_weight = 0
    /\ s.normalised_weight = 0
    /\ s.leverage = None

UnderlyingsHeld(pf) == {get_pricing_pair(p.pair) : p \in Range(pf.open_positions)}

\* C18: after update_old_weights(portfolio) every open position has a record
\* in signals under its underlying spot pair, with the position's pair as
\* old_pair, its value as old_value and value / NAV as old_weight; the record
\* is a new one with signal 0 and weight 0 when the pair had none; records of
\* pairs without an open position keep old_weight 0 and no old_pair.
C18_OldWeightsFollowPositions ==
    [][(last'.op = "update_old_weights" /\ last'.ok) =>
          /\ \A p \in Range(portfolio'.open_positions) :
                 /\ HasRecordFor(signals', get_pricing_pair(p.pair))
                 /\ CarriesPosition(RecordFor(signals', get_pricing_pair(p.pair)),
                                    portfolio', p)
                 /\ ~HasRecordFor(signals, get_pricing_pair(p.pair)) =>
                        IsCreatedFor(RecordFor(signals', get_pricing_pair(p.pair)), p)
          /\ \A i \in 1..Len(signals') :
                 signals'[i].pair \notin UnderlyingsHeld(portfolio') =>
                     /\ signals'[i].old_weight = 0
                     /\ signals'[i].old_pair = NoPair
                     /\ signals'[i] = RecordFor(signals, signals'[i].pair)]_vars

(* Properties of calculate_target_positions *)

\* normalised_weight x equity, in dollars
DollarTarget(s, equity) == (s.normalised_weight * equity) \div WeightScale

\* C19: after calculate_target_positions(position_manager, E) every record
\* of signals has position_target = normalised_weight x E, and
\* position_adjust_usd = position_target when the signal is flipping and
\* position_target - old_value otherwise.
C19_TargetsAndAdjusts ==
    [][last'.op = "calculate_target_positions" =>
          /\ last'.ok
          /\ Len(signals') = Len(signals)
          /\ \A i \in 1..Len(signals') :
                 LET s == signals'[i]
                     E == last'.args.investable_equity
                 IN /\ s.pair = signals[i].pair
                    /\ s.normalised_weight = signals[i].normalised_weight
                    /\ s.old_value = signals[i].old_value
                    /\ s.position_target = DollarTarget(signals[i], E)
                    /\ s.position_adjust_usd =
                           IF is_flipping(s) THEN s.position_target
                           ELSE s.position_target - s.old_value]_vars

\* a flipping record and a record that adjusts a held position
C19_Witness ==
    /\ last.op = "calculate_target_positions"
    /\ \E i, j \in 1..Len(signals) :
           /\ is_flipping(signals[i])
           /\ signals[i].old_value > 0
           /\ signals[i].position_target > 0
           /\ signals[i].position_adjust_usd = signals[i].position_target
           /\ ~is_flipping(signals[j])
           /\ signals[j].old_value > 0
           /\ signals[j].position_target > 0
           /\ signals[j].position_adjust_usd < 0

\* C20: after calculate_target_positions the synthetic_pair of every record
\* of signals is the record's spot pair when signal >= 0 and the short pair
\* of that underlying when signal < 0: it is a short pair exactly when the
\* signal is negative.
C20_SyntheticPairFollowsSign ==
    [][last'.op = "calculate_target_positions" =>
          \A i \in 1..Len(signals') :
              LET s == signals'[i] IN
              /\ s.signal >= 0 => s.synthetic_pair = s.pair /\ is_spot(s.synthetic_pair)
              /\ s.signal < 0 =>
                     /\ s.synthetic_pair = get_shorting_pair(s.pair)
                     /\ s.synthetic_pair.asset = s.pair.asset
              /\ is_short(s.synthetic_pair) <=> s.signal < 0]_vars

\* a short signal, and the record of a held asset without a signal
C20_Witness ==
    /\ last.op = "calculate_target_positions"
    /\ \E i, j \in 1..Len(signals) :
           /\ signals[i].signal < 0
           /\ is_short(signals[i].synthetic_pair)
           /\ signals[j].signal = 0
           /\ signals[j].old_pair # NoPair
           /\ is_short(signals[j].old_pair)
           /\ is_spot(signals[j].synthetic_pair)

(* Properties of TradingPairSignal.is_flipping *)

\* the held direction is the opposite of the signal's
OppositeDirection(s) ==
    \/ s.signal < 0 /\ (is_spot(s.old_pair) \/ is_long(s.old_pair))
    \/ s.signal > 0 /\ is_short(s.old_pair)

\* C21: is_flipping is true exactly when normalised_weight is not 0, old_pair
\* exists and the signal is negative over a spot or long old_pair or positive
\* over a short old_pair; it is false when normalised_weight is 0, when there
\* is no old_pair and when the signal is 0.
C21_FlippingIsSignReversal ==
    last.op = "is_flipping" =>
        LET s == signals[1] IN
        /\ last.args.result <=>
               (s.normalised_weight # 0 /\ s.old_pair # NoPair /\ OppositeDirection(s))
        /\ s.normalised_weight = 0 => ~last.args.result
        /\ s.old_pair = NoPair => ~last.args.result
        /\ s.signal = 0 => ~last.args.result

\* a long signal over a held short position is flipping
C21_Witness ==
    /\ last.op = "is_flipping"
    /\ last.args.result
    /\ signals[1].signal > 0
    /\ is_short(signals[1].old_pair)
    /\ signals[1].normalised_weight # 0

(* More properties of generate_rebalance_trades_and_triggers *)

\* the record update_old_weights created for a held asset without a
\* selected signal
HeldWithoutSignal(s) ==
    s.signal = 0 /\ s.normalised_weight = 0 /\ s.old_pair # NoPair

\* C22: for every asset with an open position and no selected signal, whose
\* record update_old_weights created with signal 0, the returned list holds
\* a close of the position the record carries, for every position value and
\* every min_trade_threshold.
C22_HeldWithoutSignalIsClosed ==
    GenerateReturned =>
        \A i \in 1..Len(signals) :
            HeldWithoutSignal(signals[i]) =>
                \A p \in HeldPositions(signals[i]) :
                    p.pair = signals[i].old_pair =>
                        \E t \in Range(returned) :
                            t.kind = "close" /\ t.position_id = p.position_id

(* The position a signal is connected to *)

\* the trades that open or adjust the position of the signal
OpenOrAdjust(trades) ==
    SelectSeq(trades, LAMBDA t : t.kind \in {"open_short", "adjust_short", "adjust_position"})

\* C24: after generate_rebalance_trades_and_triggers, a signal for which an
\* open or adjust trade was created has the position_id of the position
\* that trade is on: for a flipping signal the new position and not the
\* closed one.
C24_PositionIdIsControlledPosition ==
    GenerateReturned =>
        \A i \in 1..Len(signals) :
            \A t \in Range(OpenOrAdjust(RequestedFor(signals[i]))) :
                signals[i].position_id = Some(t.position_id)

(* The returned list and the order the signals are processed in *)

\* what a trade asks for: instrument, direction and size
Intent(t) == [pair |-> t.pair, kind |-> t.kind, reduce |-> t.reduce, usd |-> t.usd]

\* the intents generate_rebalance_trades_and_triggers returns for the
\* signals, processed in the order of sigs; None when the call fails
ReturnedIntents(sigs, min_trade_threshold) ==
    LET run == RebalanceLoop(sigs, 1, portfolio, <<>>, min_trade_threshold,
                             close_position_weight_epsilon, ReliablePM, 0)
        list == ReturnedTrades(run.trades)
    IN IF run.ok THEN Some([i \in 1..Len(list) |-> Intent(list[i])]) ELSE None

\* C25: for the same signal records and the same portfolio, every order of
\* iteration over signals makes generate_rebalance_trades_and_triggers
\* return the same sequence of trade intents.
C25_ReturnedListIgnoresOrder ==
    pc = "generate_rebalance_trades" =>
        \A min_trade_threshold \in MinTradeThresholds,
           order \in InsertionOrders(Len(signals)) :
            ReturnedIntents([i \in 1..Len(signals) |-> signals[order[i]]],
                            min_trade_threshold)
                = ReturnedIntents(signals, min_trade_threshold)

\* C23: when a signal is neither ignored by the trade threshold nor closed
\* for its weight and the position manager created no trade at all for it,
\* the call fails and returns no list.
C23_NoTradeIsAFailure ==
    (Generated /\ last.args.use_spot_for_long) =>
        \A i \in 1..Len(signals) :
            (ReachesTradeBranch(signals[i]) /\ RequestedFor(signals[i]) = <<>>) =>
                ~last.ok /\ returned = <<>>

\* the position manager handed back an empty list for a spot buy, after it
\* served a signal before it
C23_Witness ==
    /\ Generated
    /\ last.args.pm.mode = "empty"
    /\ ~last.ok
    /\ last.args.processed = 1
    /\ requested # <<>>
    /\ LET s == signals[2] IN
       /\ s.signal > 0
       /\ s.leverage = None
       /\ ReachesTradeBranch(s)
       /\ RequestedFor(s) = <<>>

(* Two runs on the same inputs *)

\* what the pipeline decided: the selected pairs with their targets
Targets(sigs) ==
    {[pair |-> sigs[i].pair, position_target |-> sigs[i].position_target,
      position_adjust_usd |-> sigs[i].position_adjust_usd] : i \in 1..Len(sigs)}

Diffs(d) == [i \in 1..Len(d) |-> d[i].diff]

\* C27: when calculate_weight_diffs returns, the result holds one diff for
\* every record of signals, normalised_weight - old_weight, so the diffs
\* sum to the new weights' sum minus the old weights' sum and a held asset
\* without a new weight gets -old_weight; the model is left as it was.
C27_WeightDiffs ==
    [][(last'.op = "calculate_weight_diffs" /\ last'.ok) =>
          LET diffs == last'.args.diffs IN
          /\ Len(diffs) = Len(signals)
          /\ \A i \in 1..Len(signals) :
                 /\ diffs[i].id = internal_id(signals[i].pair)
                 /\ diffs[i].diff = signals[i].normalised_weight - signals[i].old_weight
                 /\ signals[i].normalised_weight = 0 => diffs[i].diff = -signals[i].old_weight
          /\ Sum(Diffs(diffs))
                 = Sum(NormalisedWeights)
                       - Sum([i \in 1..Len(signals) |-> signals[i].old_weight])
          /\ UNCHANGED <<raw_signals, signals, investable_equity,
                         close_position_weight_epsilon, portfolio>>]_vars

\* the diffs of a held asset without a signal and of a new asset
C27_Witness ==
    /\ last.op = "calculate_weight_diffs"
    /\ last.ok
    /\ Len(signals) = 2
    /\ \E i, j \in 1..2 :
           /\ signals[i].normalised_weight = 0
           /\ signals[i].old_weight > 0
           /\ last.args.diffs[i].diff < 0
           /\ signals[j].normalised_weight > 0
           /\ signals[j].old_weight = 0
           /\ last.args.diffs[j].diff > 0

(* Failures of the position manager *)

\* the step is a call that met the failing position manager call
MetFailure(op) ==
    /\ last'.op = op
    /\ last'.args.pm.mode = "fails"
    /\ last'.args.pm_calls >= last'.args.pm.at

\* the records from index i on are untouched
UntouchedFrom(i) == \A j \in i..Len(signals') : signals'[j] = signals[j]

\* C28: when a position manager call raises during
\* calculate_target_positions or generate_rebalance_trades_and_triggers, the
\* call of the model fails at once: the failing call is the last position
\* manager call made, the later signals are left untouched, no trade list is
\* returned and the cycle ends.
C28_FailurePropagatesAtOnce ==
    [][/\ MetFailure("calculate_target_positions") =>
              /\ ~last'.ok
              /\ last'.args.pm_calls = last'.args.pm.at
              /\ \E i \in 1..Len(signals) :
                     /\ AsksQuantity(signals[i], last'.args.investable_equity)
                     /\ signals'[i].position_adjust_quantity
                            = signals[i].position_adjust_quantity
                     /\ UntouchedFrom(i + 1)
              /\ pc' = "failed"
       /\ MetFailure(GenerateOp) =>
              /\ ~last'.ok
              /\ last'.args.pm_calls = last'.args.pm.at
              /\ UntouchedFrom(last'.args.processed + 2)
              /\ signals'[last'.args.processed + 1].position_id
                     = signals[last'.args.processed + 1].position_id
              /\ returned' = <<>>
              /\ pc' = "failed"]_vars

\* open_short raised after the old position of a flipping signal was closed
C28_Witness ==
    /\ Generated
    /\ last.args.pm.mode = "fails"
    /\ last.args.pm_calls = last.args.pm.at
    /\ ~last.ok
    /\ Len(signals) = 2
    /\ last.args.processed = 0
    /\ is_flipping(signals[1])
    /\ Len(requested) = 1
    /\ requested[1].kind = "close"
    /\ returned = <<>>

(* A signal set to zero *)

\* C29: a pair whose last set_signal had alpha 0, so that raw_signals has
\* no entry for it, is given no weight by assign_weights or
\* normalise_weights, whether select_top_signals ran before or after that
\* set_signal, and generate_rebalance_trades_and_triggers creates no
\* open_short, adjust_short or adjust_position for it.
C29_ZeroedPairIsExcluded ==
    [][\A a \in Assets :
          ~RawHas(raw_signals, SpotPair(a)) =>
              /\ (last'.op \in {"assign_weights", "normalise_weights"}
                      /\ HasRecordFor(signals', SpotPair(a))) =>
                     /\ RecordFor(signals', SpotPair(a)).raw_weight = 0
                     /\ RecordFor(signals', SpotPair(a)).normalised_weight = 0
              /\ last'.op = GenerateOp =>
                     \A t \in Range(OpenOrAdjust(requested')) : t.pair.asset # a]_vars

(* has_trades and the trades of the cycle *)

\* C30: after generate_rebalance_trades_and_triggers returned, has_trades()
\* of a record is true exactly when the call created a trade for it.
C30_HasTradesIffTraded ==
    GenerateReturned =>
        \A i \in 1..Len(signals) :
            has_trades(signals[i]) <=> RequestedFor(signals[i]) # <<>>

(* What set_signal leaves alone *)

\* C31: a set_signal call, accepted or failing, changes nothing but
\* raw_signals: signals and every record in it stay as they were, also for a
\* pair that select_top_signals has already put into signals.
C31_SetSignalTouchesRawSignalsOnly ==
    [][last'.op = "set_signal" =>
          /\ signals' = signals
          /\ UNCHANGED <<investable_equity, close_position_weight_epsilon, portfolio,
                         requested, returned>>]_vars

\* an accepted call with a new value for a pair that is selected: the
\* selected record keeps its value, raw_signals has the new one
C31_Witness ==
    /\ last.op = "set_signal"
    /\ last.ok
    /\ HasRecordFor(signals, last.args.pair)
    /\ last.args.alpha # 0
    /\ RecordFor(signals, last.args.pair).signal # last.args.alpha
    /\ RecordFor(signals, last.args.pair).raw_weight # 0
    /\ RawHas(raw_signals, last.args.pair)
    /\ RawRecordFor(raw_signals, signals, last.args.pair).signal = last.args.alpha

(* One direction for each asset, cycle after cycle *)

\* the kinds of the positions open on asset a
KindsHeld(a) ==
    {p.pair.kind : p \in {q \in Range(portfolio.open_positions) : q.pair.asset = a}}

\* C32: over cycles of a fresh model that follows the pipeline, with the
\* returned trades executed in full, no asset has an open spot position and
\* an open short position at the same time.
C32_OneDirectionForEachAsset ==
    \A a \in Assets : ~({"spot", "short"} \subseteq KindsHeld(a))

\* a later cycle has started with a short position on an asset that held a
\* spot position before: the executed trades were a close and an open_short
C32_Witness ==
    /\ pc = "set_signal"
    /\ portfolio.next_trade_id > 3
    /\ \E a \in Assets :
           /\ KindsHeld(a) = {"short"}
           /\ \E p \in Range(portfolio.open_positions) :
                  p.pair.asset = a /\ p.position_id > 1

(* Signals below the close epsilon *)

\* C33: for a signal whose normalised_weight is below
\* close_position_weight_epsilon, generate_rebalance_trades_and_triggers asks
\* the position manager for nothing but close_position, also when the
\* signal is flipping.
C33_WeakSignalOnlyCloses ==
    Generated =>
        \A i \in 1..Len(signals) :
            signals[i].normalised_weight < close_position_weight_epsilon =>
                \A t \in Range(RequestedFor(signals[i])) : t.kind = "close"

\* a flipping signal with a weight below the epsilon: its old position is
\* closed and nothing is opened
C33_Witness ==
    /\ GenerateReturned
    /\ \E i \in Processed :
           /\ is_flipping(signals[i])
           /\ signals[i].normalised_weight > 0
           /\ signals[i].normalised_weight < close_position_weight_epsilon
           /\ Len(RequestedFor(signals[i])) = 1
           /\ RequestedFor(signals[i])[1].kind = "close"

(* A held asset without a signal, for every epsilon *)

\* C34: whatever close_position_weight_epsilon >= 0 the model was built
\* with, a record with signal 0 and normalised_weight 0 that has an old
\* position is handled by close_position on the held instrument only.
C34_HeldWithoutSignalOnlyCloses ==
    Generated =>
        \A i \in 1..Len(signals) :
            (/\ signals[i].signal = 0
             /\ signals[i].normalised_weight = 0
             /\ signals[i].old_pair # NoPair) =>
                \A t \in Range(RequestedFor(signals[i])) :
                    t.kind = "close" /\ t.pair = signals[i].old_pair

(* The records of held assets, once the old weights are read *)

\* C35: a record of signals that carries an old position keeps its place in
\* signals and its old_weight, old_value and old_pair through every later
\* select_top_signals, assign_weights, normalise_weights and set_signal.
C35_HeldRecordsStay ==
    [][last'.op \in {"select_top_signals", "assign_weights", "normalise_weights",
                     "set_signal"} =>
          \A i \in 1..Len(signals) :
              signals[i].old_pair # NoPair =>
                  /\ HasRecordFor(signals', signals[i].pair)
                  /\ LET kept == RecordFor(signals', signals[i].pair) IN
                     /\ kept.old_weight = signals[i].old_weight
                     /\ kept.old_value = signals[i].old_value
                     /\ kept.old_pair = signals[i].old_pair]_vars

(* Records whose targets were not computed *)

\* C36: when a record of signals has no synthetic_pair,
\* generate_rebalance_trades_and_triggers fails when it reaches the record:
\* the record is not processed, no trade is created for it and no list is
\* returned.
C36_NoTargetsNoTrades ==
    (Generated /\ last.args.use_spot_for_long) =>
        \A i \in 1..Len(signals) :
            signals[i].synthetic_pair = NoPair =>
                /\ ~last.ok
                /\ last.args.processed < i
                /\ RequestedFor(signals[i]) = <<>>
                /\ returned = <<>>

\* the record of a held asset that update_old_weights made, with a position
\* that is worth a trade, and no calculate_target_positions call
C36_Witness ==
    /\ Generated
    /\ last.args.use_spot_for_long
    /\ ~last.ok
    /\ Len(signals) >= 1
    /\ signals[1].synthetic_pair = NoPair
    /\ signals[1].old_pair # NoPair
    /\ signals[1].old_value >= last.args.min_trade_threshold
    /\ last.args.processed = 0

(* The old values and weights as a whole *)

\* C37: after update_old_weights the old_value of the records of signals
\* sum to the value of the open positions and the old_weight to that value
\* over the NAV, which is 1, also when two open positions have the same
\* underlying.
C37_OldValuesSumToPositions ==
    (last.op = "update_old_weights" /\ last.ok) =>
        /\ Sum([i \in 1..Len(signals) |-> signals[i].old_value])
               = get_position_equity_and_loan_nav(portfolio)
        /\ portfolio.open_positions # <<>> =>
               SumsToOne([i \in 1..Len(signals) |-> signals[i].old_weight])

(* The targets as a whole *)

PositionTargets == [i \in 1..Len(signals) |-> signals[i].position_target]

\* C38: after calculate_target_positions(position_manager, E) the
\* position_target of the records of signals sum to at most E, and to E
\* (within the rounding of one unit for each record) when some
\* normalised_weight is not 0, whatever select_top_signals, assign_weights,
\* normalise_weights and update_old_weights calls came before.
C38_TargetsSumToEquity ==
    (last.op = "calculate_target_positions" /\ last.ok) =>
        /\ Sum(PositionTargets) <= investable_equity
        /\ (\E i \in 1..Len(signals) : signals[i].normalised_weight # 0) =>
               Sum(PositionTargets) > investable_equity - Len(signals)

(* The ring buffer of log records *)

\* the held records are the last ones emitted, oldest first
HeldAreMostRecent ==
    /\ Len(buffer.items) = Min(ncalls, buffer.maxlen)
    /\ \A i \in 1..Len(buffer.items) :
           buffer.items[i].msg = ncalls - Len(buffer.items) + i

\* the entries export returned: one for each held record, by timestamp
ExportedAllHeld ==
    LET result == last.args.result
        n == Len(buffer.items)
    IN  /\ Len(result) = n
        /\ \E f \in InsertionOrders(n) :
               \A i \in 1..n : result[i] = ExportedRecord_export(buffer.items[f[i]])
        /\ \A i, j \in 1..n : i < j => result[i].timestamp <= result[j].timestamp

\* C39: after any emit calls the RingBufferHandler holds at most buffer_size
\* records and they are the most recently emitted ones; an export() that
\* returns gives one entry for each held record, sorted by timestamp from
\* oldest to newest, and export() leaves the buffer as it was.
C39_RingBufferKeepsLatest ==
    [][/\ Len(buffer'.items) <= buffer'.maxlen
       /\ HeldAreMostRecent'
       /\ last'.op = "export" => buffer' = buffer
       /\ (last'.op = "export" /\ last'.ok) => ExportedAllHeld']_vars

\* a full buffer that has evicted a record, exported with the entries in
\* another order than the buffer holds the records
C39_Witness ==
    /\ pc = "logging"
    /\ last.op = "export" /\ last.ok
    /\ buffer.maxlen = MaxBufferSize
    /\ ncalls > buffer.maxlen
    /\ Len(last.args.result) = MaxBufferSize
    /\ buffer.items[1].created > buffer.items[2].created
    /\ last.args.result[1].message[2] = buffer.items[2].msg

====
